---- MODULE Spec2Model ----
(***************************************************************************)
(* A model of eiscp/core.py: the eISCP codec, the reply filter, the        *)
(* blocking client eISCP and the threaded client Receiver.                 *)
(*                                                                         *)
(* Three specifications share the module:                                  *)
(*   Spec       the Receiver: caller threads, worker threads, the queue,   *)
(*              the command socket and the device at the other end;        *)
(*   SyncSpec   eISCP.raw run by one context against a clock;              *)
(*   CodecSpec  command_to_packet and MessageBuffer.get_message on bytes.  *)
(* RunningSpec is Spec started with the worker thread already created.     *)
(***************************************************************************)
EXTENDS Integers, Sequences, FiniteSets, TLC

VARIABLES
    \* ---- Receiver (Spec) ----
    thread,      \* self._thread: 0 (unset or None) or the id of a Thread
    stop,        \* self._stop
    curq,        \* self._queue: 0 (unset) or the id of a Queue
    queues,      \* the contents of every Queue created
    sock,        \* self.command_socket: "none", "connected", "unconnected"
    buffer,      \* self._message_buffer.buffer, in whole frames
    inbox,       \* frames readable on the command socket
    peerClosed,  \* the peer has closed the connection
    tpc,         \* each worker thread's position in _thread_loop
    titem,       \* each worker thread's popped item
    cpc,         \* each caller's position in its call
    cop,         \* each caller's call
    nextId,      \* the serial number of the next item put: ids follow put order
    result,      \* each item's result list (set together with its event)
    wire,        \* the items whose packets were written, in that order
    calls,       \* the number of calls made so far
    got,         \* what raw returned or raised to each caller
    touched,     \* the contexts that operated on the command socket
    emitted,     \* the number of frames the device has emitted
    replied,     \* the items the device has replied to
    joining,     \* the Thread a worker is blocked joining (0: none)
    handled,     \* the last message a poll of a worker returned, and where it went
    \* ---- eISCP.raw (SyncSpec) ----
    spc,         \* the position in eISCP.raw
    smsg,        \* iscp_message
    elapsed,     \* time.time() - start, in ticks of the poll timeout
    polled,      \* the messages the polls of filter_for_message returned
    didPoll,      \* whether filter_for_message has polled
    sres,        \* what raw returned or raised
    \* ---- the codec (CodecSpec) ----
    command,     \* the argument of command_to_packet, as code points
    packet,      \* the bytes command_to_packet returned
    mbuf,        \* MessageBuffer.buffer, as bytes
    message,     \* what MessageBuffer.get_message returned or raised
    cstage,      \* the position in the round trip
    \* ---- MessageBuffer fed in chunks (ChunkSpec) ----
    texts,       \* the frames of the byte stream: body and end characters
    fed,         \* how many bytes of the stream recv has been given
    chunkbuf,    \* MessageBuffer.buffer, as bytes
    outs,        \* the messages get_message returned, in order
    partial,     \* whether get_message ever left part of a frame buffered
    kstage,      \* "off", "feed", "get", "done" or "failed"
    \* ---- eISCP.discover (DiscoverSpec) ----
    dpc,         \* the position in discover
    ifleft,      \* the interface addresses still to scan
    found,       \* found_receivers: the receivers in insertion order
    heard,       \* every response parsed so far: identifier and source
    dopen,       \* the UDP sockets open
    nresp,       \* the datagrams read so far
    dresult,     \* the list discover returned
    \* ---- the pretty commands (TranslateSpec) ----
    treq,        \* the zone, command and argument to translate
    touts,       \* what command_to_iscp returned or raised, per call shape
    tback,       \* what iscp_to_command returned or raised
    \* ---- the eISCP client counted in bytes (BufferSpec) ----
    zsock,       \* command_socket: "none" or "connected"
    zlen,        \* len(_message_buffer.buffer)
    zpend,       \* the bytes the socket has ready to read
    zclosed,     \* whether the device has closed the connection
    zframes,     \* the sizes of the frames the buffer and the socket hold
    zpc,         \* the position in raw: "idle", "drain", "send" or "filter"
    zlast,       \* what the last operation returned or raised
    zwhy,        \* why the client was last disconnected, "" if never
    zstale,      \* the bytes the last operation's connect cleared
    zemitted,    \* the frames the device has sent
    \* ---- the views of the capability document (ViewSpec) ----
    vnri,        \* _nri: the cached capability document, or NoDoc
    vdoc,        \* the document the device answered the query with
    vqueries,    \* how many capability queries were sent
    vout         \* what the reads of each view returned, in order

avars == <<thread, stop, curq, queues, sock, buffer, inbox, peerClosed, tpc,
           titem, cpc, cop, nextId, result, wire, calls, got, touched, emitted,
           replied, joining, handled>>

svars == <<spc, smsg, elapsed, polled, didPoll, sres>>

cvars == <<command, packet, mbuf, message, cstage>>

kvars == <<texts, fed, chunkbuf, outs, partial, kstage>>

\* the variables of the specifications other than the clients' and the
\* codec's
dvars == <<dpc, ifleft, found, heard, dopen, nresp, dresult>>

tvars == <<treq, touts, tback>>

zvars == <<zsock, zlen, zpend, zclosed, zframes, zpc, zlast, zwhy, zstale, zemitted>>

nvars == <<vnri, vdoc, vqueries, vout>>

xvars == <<kvars, dvars, tvars, zvars, nvars>>

vars == <<avars, svars, cvars, xvars>>

----------------------------------------------------------------------------
\* Bounds of the model.

\* calls made by all callers together
MaxCalls == 2
\* frames the device emits on the command connection
MaxInbound == 2

\* The caller contexts, and the Threads a Receiver may start.
Callers == {"c1", "c2"}
Threads == {1, 2}
Ids == 1..MaxCalls

----------------------------------------------------------------------------
\* ISCP messages are strings, modelled as sequences of characters.

PVR00 == <<"P", "V", "R", "0", "0">>
PVR01 == <<"P", "V", "R", "0", "1">>
MVLUP == <<"M", "V", "L", "U", "P">>
MVL13 == <<"M", "V", "L", "1", "3">>
MGSx  == <<"M", "G", "S", "x">>
MDIx  == <<"M", "D", "I", "x">>
CTVUP == <<"C", "T", "V", "U", "P">>
CTV01 == <<"C", "T", "V", "0", "1">>

Min(a, b) == IF a < b THEN a ELSE b

\* s[:3]
Take3(s) == SubSeq(s, 1, Min(3, Len(s)))

\* Results of a poll (eISCP.get): a message, None, or a raised error.
None == [kind |-> "none", m |-> <<>>, re |-> 0]
Msg(m, re) == [kind |-> "msg", m |-> m, re |-> re]
Raised(e) == [kind |-> e, m |-> <<>>, re |-> 0]

\* Python truthiness of a poll result: not None and not the empty string.
Truthy(r) == r.kind = "msg" /\ r.m # <<>>

\* A variant of the acceptance tests that accepts every message polled;
\* C1_OwnPrefixCorrelated must tell it from Accepts.
AcceptsAny(cand, msg) == Truthy(cand)

\* A variant of the acceptance tests without the MDI for MGS alias;
\* C6_ReturnsFirstOfGroup must tell it from Accepts.
AcceptsNoAlias(cand, msg) == Truthy(cand) /\ Take3(cand.m) = Take3(msg)

\* The two acceptance tests of filter_for_message.
Accepts(cand, msg) ==
    \/ Truthy(cand) /\ Take3(cand.m) = Take3(msg)
    \/ Truthy(cand) /\ Take3(cand.m) = <<"M", "D", "I">> /\ Take3(msg) = <<"M", "G", "S">>

\* "CTV" in msg[:3]
IsCTV(msg) == Take3(msg) = <<"C", "T", "V">>

\* A variant of the loop pass without the CTV exception;
\* C7_OnePollForCTV must tell it from FilterStep.
FilterStepNoCTV(cand, msg, late) ==
    IF Accepts(cand, msg) THEN [act |-> "return", val |-> cand]
    ELSE IF late THEN [act |-> "raise", val |-> Raised("timeout")]
    ELSE [act |-> "again", val |-> None]

\* A variant of the loop pass that, once late, returns whatever message
\* the poll gave; C8_TimeoutAfterLastPoll must tell it from FilterStep.
FilterStepLateReturns(cand, msg, late) ==
    IF Accepts(cand, msg) THEN [act |-> "return", val |-> cand]
    ELSE IF IsCTV(msg) THEN [act |-> "return", val |-> Msg(msg, -1)]
    ELSE IF late /\ Truthy(cand) THEN [act |-> "return", val |-> cand]
    ELSE IF late THEN [act |-> "raise", val |-> Raised("timeout")]
    ELSE [act |-> "again", val |-> None]

\* One pass of the loop of filter_for_message, after candidate =
\* getter_func(0.05) gave cand; late is time.time() - start > 5.0.
\* re = -1 marks the sent message itself, which no frame carried.
FilterStep(cand, msg, late) ==
    IF Accepts(cand, msg) THEN [act |-> "return", val |-> cand]
    ELSE IF IsCTV(msg) THEN [act |-> "return", val |-> Msg(msg, -1)]
    ELSE IF late THEN [act |-> "raise", val |-> Raised("timeout")]
    ELSE [act |-> "again", val |-> None]

----------------------------------------------------------------------------
\* The codec, on code points (str) and bytes.

\* EOF = '\x1a'
EOF == 26
\* '\r'
CR == 13
\* '\n'
LF == 10
\* TERMINATORS = ['\n', '\r']
TERMINATORS == {LF, CR}
\* '!1'
StartUnit == <<33, 49>>
\* b'ISCP'
Magic == <<73, 83, 67, 80>>
\* header size (16 bytes)
HeaderSize == 16

\* A result of the codec: kind is "msg", "none" (None) or the error raised.
NoResult == [kind |-> "none", m |-> <<>>]

\* str.encode('utf-8') of one code point (below 0x10000)
Utf8Char(cp) ==
    IF cp < 128 THEN <<cp>>
    ELSE IF cp < 2048 THEN <<192 + (cp \div 64), 128 + (cp % 64)>>
    ELSE <<224 + (cp \div 4096), 128 + ((cp \div 64) % 64), 128 + (cp % 64)>>

\* str.encode('utf-8')
RECURSIVE Utf8Encode(_)
Utf8Encode(s) ==
    IF s = <<>> THEN <<>> ELSE Utf8Char(Head(s)) \o Utf8Encode(Tail(s))

IsCont(bs, k) == Len(bs) >= k /\ bs[k] >= 128 /\ bs[k] < 192

\* bytes.decode(): ok is FALSE where it raises UnicodeDecodeError
RECURSIVE Utf8Decode(_)
Utf8Decode(bs) ==
    IF bs = <<>> THEN [ok |-> TRUE, s |-> <<>>]
    ELSE LET b == bs[1]
             n == IF b < 128 THEN 1
                  ELSE IF b >= 194 /\ b < 224 /\ IsCont(bs, 2) THEN 2
                  ELSE IF b >= 224 /\ b < 240 /\ IsCont(bs, 2) /\ IsCont(bs, 3)
                       THEN 3
                  ELSE 0
             cp == IF n = 1 THEN b
                   ELSE IF n = 2 THEN (b - 192) * 64 + (bs[2] - 128)
                   ELSE (b - 224) * 4096 + (bs[2] - 128) * 64 + (bs[3] - 128)
         IN  IF n = 0 THEN [ok |-> FALSE, s |-> <<>>]
             ELSE LET r == Utf8Decode(SubSeq(bs, n + 1, Len(bs)))
                  IN  [ok |-> r.ok, s |-> IF r.ok THEN <<cp>> \o r.s ELSE <<>>]

\* struct.pack('! I', n): four bytes, most significant first
PackI(n) ==
    <<(n \div 16777216) % 256, (n \div 65536) % 256, (n \div 256) % 256, n % 256>>

\* struct.unpack('! I', bs)
UnpackI(bs) == bs[1] * 16777216 + bs[2] * 65536 + bs[3] * 256 + bs[4]

\* A variant of ISCPMessage.__str__ that puts EOF before the end
\* character; C9_EncodeOmitsEOF must tell it from ISCPStr.
ISCPStrWithEOF(data) == StartUnit \o data \o <<EOF, CR>>

\* ISCPMessage.__str__: '!1{}\r'.format(self.data)
ISCPStr(data) == StartUnit \o data \o <<CR>>

\* data[off] for a negative off
AtEnd(data, off) == data[Len(data) + off + 1]

\* ISCPMessage.parse; ok is FALSE where an assertion fails
ISCPParse(data) ==
    IF SubSeq(data, 1, Min(2, Len(data))) # StartUnit
    THEN [ok |-> FALSE, s |-> <<>>]
    ELSE LET o1 == IF AtEnd(data, -1) \in TERMINATORS THEN -2 ELSE -1
             eof_offset == IF o1 = -2 /\ AtEnd(data, -2) \in TERMINATORS
                           THEN -3 ELSE o1
         IN  IF AtEnd(data, eof_offset) # EOF
             THEN [ok |-> FALSE, s |-> <<>>]
             ELSE [ok |-> TRUE, s |-> SubSeq(data, 3, Len(data) + eof_offset)]

\* eISCPPacket.__init__: the header, with len(iscp_message) as the data
\* size, then iscp_message.encode('utf-8')
PacketBytes(iscp_message) ==
    Magic \o PackI(HeaderSize) \o PackI(Len(iscp_message)) \o <<1>>
        \o <<0, 0, 0>> \o Utf8Encode(iscp_message)

\* eISCPPacket.parse_header; ok is FALSE where an assertion fails
ParseHeader(bytes) ==
    IF Len(bytes) # 16 THEN [ok |-> FALSE, header_size |-> 0, data_size |-> 0]
    ELSE LET magic == SubSeq(bytes, 1, 4)
             header_size == UnpackI(SubSeq(bytes, 5, 8))
             data_size == UnpackI(SubSeq(bytes, 9, 12))
         IN  [ok |-> magic = Magic /\ header_size = 16,
              header_size |-> header_size, data_size |-> data_size]

\* command_to_packet
CommandToPacket(cmd) == PacketBytes(ISCPStr(cmd))

\* A variant of get_message that resets the buffer when the frame at its
\* head is not complete; C11_ChunksGiveTheSameMessages must tell it from
\* GetMessageBytes.
GetMessageBytesDropsPartial(buf) ==
    IF Len(buf) < 16 THEN [r |-> NoResult, buffer |-> <<>>]
    ELSE LET header == ParseHeader(SubSeq(buf, 1, 16)) IN
         IF ~header.ok
         THEN [r |-> [kind |-> "assert", m |-> <<>>], buffer |-> buf]
         ELSE IF Len(buf) < header.data_size + 16
         THEN [r |-> NoResult, buffer |-> <<>>]
         ELSE LET d == Utf8Decode(SubSeq(buf, 17, header.data_size + 16)) IN
              LET p == ISCPParse(d.s) IN
              IF ~d.ok \/ ~p.ok
              THEN [r |-> [kind |-> "assert", m |-> <<>>], buffer |-> buf]
              ELSE [r |-> [kind |-> "msg", m |-> p.s],
                    buffer |-> SubSeq(buf, 17 + header.data_size, Len(buf))]

\* A variant of get_message that drops the frame whose payload it cannot
\* parse; C26_BadFrameStaysInFront must tell it from GetMessageBytes.
GetMessageBytesSkipsBad(buf) ==
    IF Len(buf) < 16 THEN [r |-> NoResult, buffer |-> buf]
    ELSE LET header == ParseHeader(SubSeq(buf, 1, 16)) IN
         IF ~header.ok
         THEN [r |-> [kind |-> "assert", m |-> <<>>], buffer |-> buf]
         ELSE IF Len(buf) < header.data_size + 16
         THEN [r |-> NoResult, buffer |-> buf]
         ELSE LET d == Utf8Decode(SubSeq(buf, 17, header.data_size + 16)) IN
              LET p == ISCPParse(d.s) IN
              IF ~d.ok \/ ~p.ok
              THEN [r |-> [kind |-> "assert", m |-> <<>>],
                    buffer |-> SubSeq(buf, 17 + header.data_size, Len(buf))]
              ELSE [r |-> [kind |-> "msg", m |-> p.s],
                    buffer |-> SubSeq(buf, 17 + header.data_size, Len(buf))]

\* MessageBuffer.get_message on bytes: what it returns or raises, and the
\* buffer it leaves
GetMessageBytes(buf) ==
    IF Len(buf) < 16 THEN [r |-> NoResult, buffer |-> buf]
    ELSE LET header == ParseHeader(SubSeq(buf, 1, 16)) IN
         IF ~header.ok
         THEN [r |-> [kind |-> "assert", m |-> <<>>], buffer |-> buf]
         ELSE IF Len(buf) < header.data_size + 16
         THEN [r |-> NoResult, buffer |-> buf]
         ELSE LET d == Utf8Decode(SubSeq(buf, 17, header.data_size + 16)) IN
              IF ~d.ok
              THEN [r |-> [kind |-> "unicode", m |-> <<>>], buffer |-> buf]
              ELSE LET p == ISCPParse(d.s) IN
                   IF ~p.ok
                   THEN [r |-> [kind |-> "assert", m |-> <<>>], buffer |-> buf]
                   ELSE [r |-> [kind |-> "msg", m |-> p.s],
                         buffer |-> SubSeq(buf, 17 + header.data_size, Len(buf))]

----------------------------------------------------------------------------
\* The pretty commands: command_to_iscp and iscp_to_command. A str is a
\* sequence of one-character strings.

LowerOf ==
    [c \in {"C", "L", "M", "P", "R", "S", "T", "U", "V", "W", "Z", "X",
            "A", "B", "D", "E", "F"} |->
        CASE c = "C" -> "c" [] c = "L" -> "l" [] c = "M" -> "m"
          [] c = "P" -> "p" [] c = "R" -> "r" [] c = "S" -> "s"
          [] c = "T" -> "t" [] c = "U" -> "u" [] c = "V" -> "v"
          [] c = "W" -> "w" [] c = "Z" -> "z" [] c = "X" -> "x"
          [] c = "A" -> "a" [] c = "B" -> "b" [] c = "D" -> "d"
          [] c = "E" -> "e" [] c = "F" -> "f"]

\* str.lower()
Lower(s) == [k \in 1..Len(s) |-> IF s[k] \in DOMAIN LowerOf THEN LowerOf[s[k]] ELSE s[k]]

\* str.upper()
Upper(s) ==
    [k \in 1..Len(s) |->
        IF \E c \in DOMAIN LowerOf : LowerOf[c] = s[k]
        THEN CHOOSE c \in DOMAIN LowerOf : LowerOf[c] = s[k]
        ELSE s[k]]

\* str.strip()
RECURSIVE Strip(_)
Strip(s) ==
    IF s = <<>> THEN s
    ELSE IF Head(s) = " " THEN Strip(Tail(s))
    ELSE IF s[Len(s)] = " " THEN Strip(SubSeq(s, 1, Len(s) - 1))
    ELSE s

\* norm = lambda s: s.strip().lower()
Norm(s) == Lower(Strip(s))

\* The first position of s that holds a character of seps (0: none).
FirstOf(seps, s) ==
    IF \E k \in 1..Len(s) : s[k] \in seps
    THEN CHOOSE k \in 1..Len(s) : s[k] \in seps /\ \A j \in 1..(k - 1) : s[j] \notin seps
    ELSE 0

\* re.split('[seps]', s)
RECURSIVE SplitAll(_, _)
SplitAll(seps, s) ==
    IF FirstOf(seps, s) = 0 THEN <<s>>
    ELSE <<SubSeq(s, 1, FirstOf(seps, s) - 1)>>
             \o SplitAll(seps, SubSeq(s, FirstOf(seps, s) + 1, Len(s)))

\* re.split('[seps]', s, 1), for s that holds a separator
SplitFirst(seps, s) ==
    <<SubSeq(s, 1, FirstOf(seps, s) - 1), SubSeq(s, FirstOf(seps, s) + 1, Len(s))>>

Digits == <<"0", "1", "2", "3", "4", "5", "6", "7", "8", "9">>
HexDigits == Digits \o <<"a", "b", "c", "d", "e", "f">>

\* str.lstrip("-")
RECURSIVE LstripMinus(_)
LstripMinus(s) == IF s # <<>> /\ Head(s) = "-" THEN LstripMinus(Tail(s)) ELSE s

\* str.isdigit()
IsDigit(s) == s # <<>> /\ \A k \in 1..Len(s) : \E d \in 1..10 : Digits[d] = s[k]

DigitValue(c) == (CHOOSE d \in 1..10 : Digits[d] = c) - 1

RECURSIVE DecValue(_)
DecValue(s) ==
    IF s = <<>> THEN 0
    ELSE DecValue(SubSeq(s, 1, Len(s) - 1)) * 10 + DigitValue(s[Len(s)])

\* int(s) for a str: ok is FALSE where it raises ValueError
IntOfStr(s) ==
    IF IsDigit(s) THEN [ok |-> TRUE, n |-> DecValue(s)]
    ELSE IF s # <<>> /\ Head(s) = "-" /\ IsDigit(Tail(s))
    THEN [ok |-> TRUE, n |-> 0 - DecValue(Tail(s))]
    ELSE [ok |-> FALSE, n |-> 0]

\* The hexadecimal digits of n >= 0, without leading zeros.
RECURSIVE HexOfNat(_)
HexOfNat(n) ==
    IF n < 16 THEN <<HexDigits[n + 1]>>
    ELSE HexOfNat(n \div 16) \o <<HexDigits[(n % 16) + 1]>>

\* hex(n)
PyHex(n) ==
    IF n >= 0 THEN <<"0", "x">> \o HexOfNat(n)
    ELSE <<"-", "0", "x">> \o HexOfNat(0 - n)

\* A variant of zfill that pads nothing; C14_HexCodes must tell it from
\* Zfill2.
Zfill2Nothing(s) == s

\* str.zfill(2), for a str that begins with no sign
Zfill2(s) ==
    IF Len(s) = 0 THEN <<"0", "0">> ELSE IF Len(s) = 1 THEN <<"0">> \o s ELSE s

\* Python values: None, a str, an int, a list of str.
PyNone == [t |-> "none", s |-> <<>>, n |-> 0, xs |-> <<>>]
PyStr(s) == [t |-> "str", s |-> s, n |-> 0, xs |-> <<>>]
PyInt(n) == [t |-> "int", s |-> <<>>, n |-> n, xs |-> <<>>]
PyList(xs) == [t |-> "list", s |-> <<>>, n |-> 0, xs |-> xs]

\* The catalogue (eiscp/commands.py), a sample of it: per zone the
\* commands, each with its prefix, its name, its value codes with their
\* names and its numeric ranges.
Main == <<"m", "a", "i", "n">>
Zone2 == <<"z", "o", "n", "e", "2">>
ZoneOrder == <<Main, Zone2>>

Catalogue ==
    { [zone |-> Main, prefix |-> <<"P", "W", "R">>, name |-> <<"p", "o", "w", "e", "r">>,
       values |-> {[code |-> <<"0", "0">>, name |-> <<"s", "t", "a", "n", "d", "b", "y">>],
                   [code |-> <<"0", "1">>, name |-> <<"o", "n">>]},
       ranges |-> {}],
      [zone |-> Main, prefix |-> <<"M", "V", "L">>, name |-> <<"v", "o", "l", "u", "m", "e">>,
       values |-> {[code |-> <<"U", "P">>, name |-> <<"l", "e", "v", "e", "l", "-", "u", "p">>]},
       ranges |-> {[lo |-> 0, hi |-> 200]}],
      [zone |-> Main, prefix |-> <<"S", "W", "L">>, name |-> <<"s", "u", "b", "w", "o", "o", "f", "e", "r", "-", "l", "e", "v", "e", "l">>,
       values |-> {[code |-> <<"U", "P">>, name |-> <<"u", "p">>]},
       ranges |-> {[lo |-> -15, hi |-> 12]}],
      [zone |-> Main, prefix |-> <<"C", "T", "L">>, name |-> <<"c", "e", "n", "t", "e", "r", "-", "l", "e", "v", "e", "l">>,
       values |-> {[code |-> <<"U", "P">>, name |-> <<"u", "p">>]},
       ranges |-> {[lo |-> -12, hi |-> 12]}],
      [zone |-> Zone2, prefix |-> <<"Z", "P", "W">>, name |-> <<"p", "o", "w", "e", "r">>,
       values |-> {[code |-> <<"0", "0">>, name |-> <<"s", "t", "a", "n", "d", "b", "y">>],
                   [code |-> <<"0", "1">>, name |-> <<"o", "n">>]},
       ranges |-> {}],
      [zone |-> Zone2, prefix |-> <<"Z", "V", "L">>, name |-> <<"v", "o", "l", "u", "m", "e">>,
       values |-> {[code |-> <<"U", "P">>, name |-> <<"l", "e", "v", "e", "l", "-", "u", "p">>]},
       ranges |-> {[lo |-> 0, hi |-> 100]}] }

\* commands.COMMANDS[zone], as the set of its entries
ZoneCommands(zone) == {e \in Catalogue : e.zone = zone}

\* zone in commands.COMMANDS: the keys are the names of the zones
IsZone(zone) == zone.t = "str" /\ \E e \in Catalogue : e.zone = zone.s

\* commands.ZONE_MAPPINGS.get(zone, zone)
ZoneGroup(zone) == IF zone.t = "none" THEN PyStr(Main) ELSE zone

\* commands.COMMAND_MAPPINGS[group].get(command, command)
PrefixOf(group, cmd) ==
    IF \E e \in ZoneCommands(group) : e.name = cmd
    THEN (CHOOSE e \in ZoneCommands(group) : e.name = cmd).prefix
    ELSE cmd

\* commands.COMMANDS[group][prefix]
Entry(group, prefix) == CHOOSE e \in ZoneCommands(group) : e.prefix = prefix

\* int(argument) in possible_arg, for a ValueRange
InRange(n, r) == r.lo <= n /\ n <= r.hi

\* The parts command_to_iscp works on once the command is parsed; ok is
\* FALSE where the parsing raises ValueError.
Parts(ok, zone, cmd, arguments) ==
    [ok |-> ok, zone |-> zone, command |-> cmd, arguments |-> arguments]

NormAll(xs) == [k \in 1..Len(xs) |-> Norm(xs[k])]

\* command_to_iscp: "If parts are not explicitly given, parse the command"
ParseCommand(cmd, arguments, zone) ==
    IF ~(arguments.t = "none" /\ zone.t = "none")
    THEN Parts(TRUE, zone, cmd, arguments)
    ELSE IF FirstOf({":", "="}, cmd) # 0
    THEN LET base == SplitFirst({":", "="}, cmd)[1]
             args == SplitFirst({":", "="}, cmd)[2]
             parts == NormAll(SplitAll({".", " "}, base))
         IN  Parts(TRUE,
                   IF Len(parts) = 2 THEN PyStr(parts[1]) ELSE PyStr(Main),
                   IF Len(parts) = 2 THEN parts[2] ELSE parts[1],
                   PyList(NormAll(SplitAll({" ", ","}, args))))
    ELSE LET parts == NormAll(SplitAll({".", " "}, cmd)) IN
         IF Len(parts) >= 3
         THEN Parts(TRUE, PyStr(parts[1]), parts[2], PyList(SubSeq(parts, 3, Len(parts))))
         ELSE IF Len(parts) = 2
         THEN Parts(TRUE, PyStr(Main), parts[1], PyList(SubSeq(parts, 2, 2)))
         ELSE Parts(FALSE, zone, cmd, arguments)

\* What command_to_iscp returns or raises.
Code(c) == [kind |-> "code", code |-> c]
Raises(e) == [kind |-> e, code |-> <<>>]

Signed == {<<"S", "W", "L">>, <<"C", "T", "L">>}

\* value = hex(int(argument))[2:].zfill(2).upper(), then the signed form
\* for SWL and CTL
EncodeValue(prefix, n) ==
    LET value == Upper(Zfill2(SubSeq(PyHex(n), 3, Len(PyHex(n))))) IN
    IF prefix \notin Signed THEN value
    ELSE IF value = <<"0", "0">> THEN <<"0">> \o value
    ELSE IF value[1] # "X" THEN <<"+">> \o value
    ELSE LET v == IF Len(value) = 2 THEN <<"-", "0">> \o Tail(value) ELSE value
         IN  <<"-">> \o Tail(v)

\* command_to_iscp: "Resolve the argument to the command"
ResolveValue(group, prefix, argument) ==
    LET e == Entry(group, prefix)
        numeric == \/ argument.t = "int"
                   \/ argument.t = "str" /\ IsDigit(LstripMinus(argument.s))
        int == IF argument.t = "int" THEN [ok |-> TRUE, n |-> argument.n]
               ELSE IntOfStr(argument.s)
    IN  IF argument.t = "str" /\ \E v \in e.values : v.name = argument.s
        THEN Code(prefix \o (CHOOSE v \in e.values : v.name = argument.s).code)
        ELSE IF e.values = {} /\ e.ranges = {} THEN Raises("UnboundLocalError")
        ELSE IF ~numeric THEN Raises("ValueError")
        ELSE IF e.ranges = {} THEN Raises("UnboundLocalError")
        ELSE IF ~int.ok THEN Raises("ValueError")
        ELSE IF \E r \in e.ranges : InRange(int.n, r)
        THEN Code(prefix \o EncodeValue(prefix, int.n))
        ELSE Raises("UnboundLocalError")

\* command_to_iscp
CommandToIscp(cmd, arguments, zone) ==
    LET p == ParseCommand(cmd, arguments, zone) IN
    IF ~p.ok THEN Raises("ValueError")
    ELSE LET group == ZoneGroup(p.zone) IN
         IF ~IsZone(p.zone) THEN Raises("ValueError")
         ELSE LET prefix == PrefixOf(group.s, p.command) IN
              IF ~\E e \in ZoneCommands(group.s) : e.prefix = prefix
              THEN Raises("ValueError")
              ELSE ResolveValue(group.s, prefix,
                       IF p.arguments.t = "list" THEN PyStr(p.arguments.xs[1])
                       ELSE p.arguments)

\* re.match('[+-]?[0-9a-f]+$', args, re.IGNORECASE)
IsHexArg(args) ==
    LET body == IF args # <<>> /\ Head(args) \in {"+", "-"} THEN Tail(args) ELSE args
    IN  body # <<>> /\ \A k \in 1..Len(body) :
            \E d \in 1..16 : HexDigits[d] = Lower(<<body[k]>>)[1]

RECURSIVE HexValue(_)
HexValue(s) ==
    IF s = <<>> THEN 0
    ELSE HexValue(SubSeq(s, 1, Len(s) - 1)) * 16
            + (CHOOSE d \in 1..16 : HexDigits[d] = Lower(<<s[Len(s)]>>)[1]) - 1

\* int(args, 16)
IntOfHex(args) ==
    IF Head(args) = "-" THEN 0 - HexValue(Tail(args))
    ELSE IF Head(args) = "+" THEN HexValue(Tail(args))
    ELSE HexValue(args)

\* What iscp_to_command returns or raises.
Triple(zone, name, value) == [kind |-> "ok", zone |-> zone, name |-> name, value |-> value]
NoTriple == [kind |-> "ValueError", zone |-> <<>>, name |-> <<>>, value |-> PyNone]

\* A variant of the scan of iscp_to_command that takes two characters for
\* the command; C15_AliasRoundTrip must tell it from IscpToCommandFrom.
RECURSIVE IscpToCommandShort(_, _)
IscpToCommandShort(zones, iscp_message) ==
    IF zones = <<>> THEN NoTriple
    ELSE LET cmd == SubSeq(iscp_message, 1, Min(2, Len(iscp_message)))
         IN  IF \E e \in ZoneCommands(Head(zones)) : e.prefix = cmd
             THEN Triple(Head(zones), Entry(Head(zones), cmd).name, PyNone)
             ELSE IscpToCommandShort(Tail(zones), iscp_message)

\* __iscp_to_command: the scan of the zones that are left
RECURSIVE IscpToCommandFrom(_, _)
IscpToCommandFrom(zones, iscp_message) ==
    IF zones = <<>> THEN NoTriple
    ELSE LET cmd == SubSeq(iscp_message, 1, Min(3, Len(iscp_message)))
             args == SubSeq(iscp_message, 4, Len(iscp_message))
         IN  IF \E e \in ZoneCommands(Head(zones)) : e.prefix = cmd
             THEN LET e == Entry(Head(zones), cmd) IN
                  IF \E v \in e.values : v.code = args
                  THEN Triple(Head(zones), e.name,
                              PyStr((CHOOSE v \in e.values : v.code = args).name))
                  ELSE IF IsHexArg(args)
                  THEN Triple(Head(zones), e.name, PyInt(IntOfHex(args)))
                  ELSE Triple(Head(zones), e.name, PyStr(args))
             ELSE IscpToCommandFrom(Tail(zones), iscp_message)

\* iscp_to_command(iscp_message, with_zone=True)
IscpToCommand(iscp_message) == IscpToCommandFrom(ZoneOrder, iscp_message)

----------------------------------------------------------------------------
\* The command socket and the message buffer, in whole frames.
\* A frame is [m, re, bad]: its ISCP message, the item it replies to (0:
\* unsolicited) and whether its header or payload fails an assertion.

Frame(m, re) == [m |-> m, re |-> re, bad |-> FALSE]
BadFrame == [m |-> <<>>, re |-> 0, bad |-> TRUE]

Conn(s, b, i, p) == [sock |-> s, buffer |-> b, inbox |-> i, peerClosed |-> p]

\* eISCP.disconnect: close the socket, command_socket = None. The buffer
\* keeps its bytes (b) until the next connect resets it; what was readable
\* on the closed socket is gone.
Closed(b) == Conn("none", b, <<>>, FALSE)

\* MessageBuffer.get_message on buffer b: the result and the buffer left.
GetMessage(b) ==
    IF b = <<>> THEN [r |-> None, buffer |-> b]
    ELSE IF Head(b).bad THEN [r |-> Raised("assert"), buffer |-> b]
    ELSE [r |-> Msg(Head(b).m, Head(b).re), buffer |-> Tail(b)]

\* eISCP._ensure_socket_connected without its except branch: the outcomes
\* of socket.connect. failed: what command_socket holds after the except
\* branch ran self.disconnect() ("none" for eISCP; Receiver.disconnect
\* does not touch it, so "unconnected").
EnsureOutcomes(failed) ==
    IF sock = "none"
    THEN { [ok |-> TRUE, c |-> Conn("connected", <<>>, <<>>, FALSE)],
           [ok |-> FALSE, c |-> Conn(failed, buffer, inbox, peerClosed)] }
    ELSE { [ok |-> TRUE, c |-> Conn(sock, buffer, inbox, peerClosed)] }

\* eISCP.get after the socket is ensured, on connection c: the poll's
\* result r, the connection left, and whether select waited out its
\* whole timeout (w).
GetOn(c) ==
    LET first == GetMessage(c.buffer) IN
    IF first.r.kind = "assert" THEN
        { [r |-> first.r, c |-> c, w |-> FALSE] }
    ELSE IF Truthy(first.r) THEN
        { [r |-> first.r, c |-> Conn(c.sock, first.buffer, c.inbox, c.peerClosed), w |-> FALSE] }
    ELSE IF c.sock = "unconnected" THEN
        \* recv raises OSError: eISCP.disconnect, return None
        { [r |-> None, c |-> Closed(first.buffer), w |-> FALSE] }
    ELSE IF c.inbox # <<>> THEN
        \* recv, then get_message
        LET g == GetMessage(first.buffer \o c.inbox) IN
        { [r |-> g.r, c |-> Conn(c.sock, g.buffer, <<>>, c.peerClosed), w |-> FALSE] }
    ELSE IF c.peerClosed THEN
        \* len(data) == 0: eISCP.disconnect, return None
        { [r |-> None, c |-> Closed(first.buffer), w |-> FALSE] }
    ELSE
        \* select: not ready
        { [r |-> None, c |-> Conn(c.sock, first.buffer, c.inbox, c.peerClosed), w |-> TRUE] }

\* eISCP.get: _ensure_socket_connected, then the poll.
GetOutcomes(failed) ==
    UNION { IF e.ok THEN GetOn(e.c)
            ELSE { [r |-> Raised("connfail"), c |-> e.c, w |-> FALSE] }
            : e \in EnsureOutcomes(failed) }

\* eISCP.send: ensure the socket, then socket.send. A write to a socket
\* whose connect failed raises; a write after the peer closed may raise.
SendOutcomes(failed) ==
    UNION { IF ~e.ok THEN { [r |-> "connfail", c |-> e.c] }
            ELSE IF e.c.sock = "unconnected" THEN { [r |-> "oserror", c |-> e.c] }
            ELSE IF e.c.peerClosed THEN { [r |-> "oserror", c |-> e.c], [r |-> "sent", c |-> e.c] }
            ELSE { [r |-> "sent", c |-> e.c] }
            : e \in EnsureOutcomes(failed) }

SetConn(c) ==
    /\ sock' = c.sock
    /\ buffer' = c.buffer
    /\ inbox' = c.inbox
    /\ peerClosed' = c.peerClosed

----------------------------------------------------------------------------
\* The Receiver: callers.

\* A step of the Receiver leaves the variables of SyncSpec alone.
AsyncOnly == UNCHANGED <<svars, cvars, xvars>>

\* A queue item (iscp_message, event, result): id is its serial number, ev
\* whether it carries an event, by the caller that put it.
NoItem == [id |-> 0, msg |-> <<>>, ev |-> FALSE, by |-> "nobody"]
NoOp == [kind |-> "none", msg |-> <<>>, id |-> 0]
Empty == [kind |-> "empty", m |-> <<>>, re |-> 0]

\* No chunks are being fed.
ChunkIdle ==
    /\ texts = <<>>
    /\ fed = 0
    /\ chunkbuf = <<>>
    /\ outs = <<>>
    /\ partial = FALSE
    /\ kstage = "off"

\* discover is not running.
DiscoverIdle ==
    /\ dpc = "off"
    /\ ifleft = 0
    /\ found = <<>>
    /\ heard = {}
    /\ dopen = 0
    /\ nresp = 0
    /\ dresult = <<>>

\* No translation is asked for.
Shapes == {"explicit", "equals", "spaces"}
NotCalled == [kind |-> "none", code |-> <<>>]
NoBack == [kind |-> "none", zone |-> <<>>, name |-> <<>>, value |-> PyNone]
NoRequest == [zone |-> PyNone, command |-> <<>>, argument |-> PyNone]

TranslateIdle ==
    /\ treq = NoRequest
    /\ touts = [sh \in Shapes |-> NotCalled]
    /\ tback = NoBack

\* No client is counted in bytes.
BufferIdle ==
    /\ zsock = "none"
    /\ zlen = 0
    /\ zpend = 0
    /\ zclosed = FALSE
    /\ zframes = <<>>
    /\ zpc = "off"
    /\ zlast = "none"
    /\ zwhy = ""
    /\ zstale = 0
    /\ zemitted = 0

\* No view is read.
Views == {"presets", "tuners"}
NoDoc == [presets |-> <<>>, tuners |-> <<>>]

ViewIdle ==
    /\ vnri = NoDoc
    /\ vdoc = NoDoc
    /\ vqueries = 0
    /\ vout = [v \in Views |-> <<>>]

\* None of the specifications other than the clients' and the codec's is
\* running.
ExtraIdle == ChunkIdle /\ DiscoverIdle /\ TranslateIdle /\ BufferIdle /\ ViewIdle

\* The messages callers send and the frames the device volunteers.
CallerMsgs == {PVR00, MVLUP}
Unsolicited == {PVR01}

\* The reply the device produces for message m.
ReplyText(m) ==
    IF Take3(m) = <<"M", "G", "S">> THEN MDIx
    ELSE IF Take3(m) = <<"P", "V", "R">> THEN PVR01
    ELSE IF Take3(m) = <<"M", "V", "L">> THEN MVL13
    ELSE Take3(m) \o <<"0", "1">>

Alive(t) == tpc[t] \notin {"new", "dead"}

\* Thread ids are handed out in order; a call starts only while an id is
\* left for every caller that may still create a Thread.
FreeThreads == {t \in Threads : tpc[t] = "new"}
MayCreate == {c \in Callers : cpc[c] = "create"}

\* Receiver.send(m) or Receiver.raw(m) is called and _ensure_thread_running
\* tests: if not getattr(self, '_thread', False)
Call(c, kind, m) ==
    /\ AsyncOnly /\ UNCHANGED handled
    /\ cpc[c] = "idle"
    /\ calls < MaxCalls
    /\ Cardinality(FreeThreads) > Cardinality(MayCreate)
    /\ calls' = calls + 1
    /\ cpc' = [cpc EXCEPT ![c] = IF thread = 0 THEN "create" ELSE "put"]
    /\ cop' = [cop EXCEPT ![c] = [kind |-> kind, msg |-> m, id |-> 0]]
    /\ got' = [got EXCEPT ![c] = [id |-> 0, val |-> Empty]]
    /\ UNCHANGED <<thread, stop, curq, queues, sock, buffer, inbox, peerClosed,
                   tpc, titem, nextId, result, wire, touched, emitted,
                   replied, joining>>

\* _ensure_thread_running: _stop = False, a new Queue, a new Thread, start()
EnsureThreadCreate(c) ==
    /\ AsyncOnly /\ UNCHANGED handled
    /\ cpc[c] = "create"
    /\ FreeThreads # {}
    /\ LET t == CHOOSE x \in FreeThreads : \A y \in FreeThreads : x <= y IN
        /\ stop' = FALSE
        /\ curq' = t
        /\ thread' = t
        /\ tpc' = [tpc EXCEPT ![t] = "connect"]
    /\ cpc' = [cpc EXCEPT ![c] = "put"]
    /\ UNCHANGED <<queues, sock, buffer, inbox, peerClosed, titem, cop, nextId,
                   result, wire, calls, got, touched, emitted, replied, joining>>

\* self._queue.put((iscp_message, event, result)); send returns, raw
\* goes on to event.wait()
QueuePut(c) ==
    /\ AsyncOnly /\ UNCHANGED handled
    /\ cpc[c] = "put"
    /\ queues' = [queues EXCEPT ![curq] =
           Append(@, [id |-> nextId, msg |-> cop[c].msg, ev |-> cop[c].kind = "raw", by |-> c])]
    /\ nextId' = nextId + 1
    /\ IF cop[c].kind = "raw"
       THEN /\ cpc' = [cpc EXCEPT ![c] = "wait"]
            /\ cop' = [cop EXCEPT ![c].id = nextId]
       ELSE /\ cpc' = [cpc EXCEPT ![c] = "idle"]
            /\ cop' = [cop EXCEPT ![c] = NoOp]
    /\ UNCHANGED <<thread, stop, curq, sock, buffer, inbox, peerClosed, tpc,
                   titem, calls, result, wire, got, touched, emitted, replied,
                   joining>>

\* raw: event.wait() returns; result[0] is returned or raised, and the
\* result list, local to the call, is gone
RawReturn(c) ==
    /\ AsyncOnly /\ UNCHANGED handled
    /\ cpc[c] = "wait"
    /\ result[cop[c].id].kind # "empty"
    /\ got' = [got EXCEPT ![c] = [id |-> cop[c].id, val |-> result[cop[c].id]]]
    /\ cpc' = [cpc EXCEPT ![c] = "idle"]
    /\ cop' = [cop EXCEPT ![c] = NoOp]
    /\ result' = [result EXCEPT ![cop[c].id] = Empty]
    /\ UNCHANGED <<thread, stop, curq, queues, sock, buffer, inbox, peerClosed,
                   tpc, titem, nextId, calls, wire, touched, emitted,
                   replied, joining>>

\* Receiver.disconnect: self._stop = True, then self._thread.join() is
\* entered (AttributeError when _thread is unset or None); cop.id keeps
\* the Thread being joined
Disconnect(c) ==
    /\ AsyncOnly /\ UNCHANGED handled
    /\ cpc[c] = "idle"
    /\ calls < MaxCalls
    /\ calls' = calls + 1
    /\ stop' = TRUE
    /\ cpc' = [cpc EXCEPT ![c] = IF thread = 0 THEN "idle" ELSE "join"]
    /\ cop' = [cop EXCEPT ![c] = IF thread = 0 THEN NoOp
                                 ELSE [kind |-> "disconnect", msg |-> <<>>, id |-> thread]]
    /\ UNCHANGED <<thread, curq, queues, sock, buffer, inbox, peerClosed, tpc,
                   titem, nextId, result, wire, got, touched, emitted, replied,
                   joining>>

\* Receiver.disconnect: join() returns, self._thread = None
DisconnectJoined(c) ==
    /\ AsyncOnly /\ UNCHANGED handled
    /\ cpc[c] = "join"
    /\ tpc[cop[c].id] = "dead"
    /\ thread' = 0
    /\ cpc' = [cpc EXCEPT ![c] = "idle"]
    /\ cop' = [cop EXCEPT ![c] = NoOp]
    /\ UNCHANGED <<stop, curq, queues, sock, buffer, inbox, peerClosed, tpc,
                   titem, nextId, result, wire, calls, got, touched, emitted,
                   replied, joining>>

\* eISCP.__enter__, which Receiver inherits: _ensure_socket_connected in
\* the caller's context; on OSError self.disconnect() is Receiver.disconnect
Enter(c) ==
    /\ AsyncOnly /\ UNCHANGED handled
    /\ cpc[c] = "idle"
    /\ calls < MaxCalls
    /\ calls' = calls + 1
    /\ \E e \in EnsureOutcomes("unconnected") :
        /\ SetConn(e.c)
        /\ touched' = IF sock = "none" THEN touched \cup {c} ELSE touched
        /\ IF e.ok \/ thread = 0
           THEN UNCHANGED <<cpc, cop>>
           ELSE /\ cpc' = [cpc EXCEPT ![c] = "join"]
                /\ cop' = [cop EXCEPT ![c] = [kind |-> "enter", msg |-> <<>>, id |-> thread]]
        /\ stop' = IF e.ok THEN stop ELSE TRUE
    /\ UNCHANGED <<thread, curq, queues, tpc, titem, nextId, result, wire, got,
                   emitted, replied, joining>>

----------------------------------------------------------------------------
\* The Receiver: the worker, _thread_loop run by Thread t.

\* An exception leaves the try block: finally runs eISCP.disconnect and
\* the thread ends.
DieInTry(t, c) ==
    /\ SetConn(Closed(c.buffer))
    /\ tpc' = [tpc EXCEPT ![t] = "dead"]

\* The except branch of _ensure_socket_connected in the worker:
\* self.disconnect() is Receiver.disconnect, which sets _stop and joins
\* self._thread. Joining the current thread raises RuntimeError, joining
\* None raises AttributeError; another Thread is waited for.
ConnFail(t, c, inTry) ==
    /\ stop' = TRUE
    /\ IF thread \in {0, t}
       THEN /\ SetConn(IF inTry THEN Closed(c.buffer) ELSE c)
            /\ tpc' = [tpc EXCEPT ![t] = "dead"]
            /\ UNCHANGED joining
       ELSE /\ SetConn(c)
            /\ tpc' = [tpc EXCEPT ![t] = IF inTry THEN "joinTry" ELSE "joinInit"]
            /\ joining' = [joining EXCEPT ![t] = thread]

\* eISCP._ensure_socket_connected(self), before the try block
WConnect(t) ==
    /\ AsyncOnly /\ UNCHANGED handled
    /\ tpc[t] = "connect"
    /\ \E e \in EnsureOutcomes("unconnected") :
        IF e.ok
        THEN /\ SetConn(e.c)
             /\ tpc' = [tpc EXCEPT ![t] = "loop"]
             /\ UNCHANGED <<stop, joining>>
        ELSE ConnFail(t, e.c, FALSE)
    /\ UNCHANGED <<thread, curq, queues, titem, cpc, cop, nextId, result, wire,
                   calls, got, touched, emitted, replied>>

\* Receiver.disconnect inside the worker: join() returns, _thread = None,
\* and the OSError is raised again
WJoined(t) ==
    /\ AsyncOnly /\ UNCHANGED handled
    /\ tpc[t] \in {"joinTry", "joinInit"}
    /\ tpc[joining[t]] = "dead"
    /\ thread' = 0
    /\ joining' = [joining EXCEPT ![t] = 0]
    /\ tpc' = [tpc EXCEPT ![t] = "dead"]
    /\ IF tpc[t] = "joinTry"
       THEN SetConn(Closed(buffer))
       ELSE UNCHANGED <<sock, buffer, inbox, peerClosed>>
    /\ UNCHANGED <<stop, curq, queues, titem, cpc, cop, nextId, result, wire,
                   calls, got, touched, emitted, replied>>

\* while not self._stop; on exit finally runs eISCP.disconnect
WLoop(t) ==
    /\ AsyncOnly /\ UNCHANGED handled
    /\ tpc[t] = "loop"
    /\ IF stop
       THEN DieInTry(t, Conn(sock, buffer, inbox, peerClosed))
       ELSE /\ tpc' = [tpc EXCEPT ![t] = "drain"]
            /\ UNCHANGED <<sock, buffer, inbox, peerClosed>>
    /\ UNCHANGED <<thread, stop, curq, queues, titem, cpc, cop, nextId, result,
                   wire, calls, got, touched, emitted, replied, joining>>

\* The outcomes of trigger(msg): on_message returns, or it raises (an
\* on_message never assigned raises AttributeError).
CallbackOutcomes == {"ok", "raise"}

\* A message a poll of the worker returned and where the worker put it:
\* "callback" (trigger), "result" (the item's result list) or "discarded".
\* n numbers the frames in the order the device emitted them: the frames
\* still to be polled are the last ones emitted.
NoHandled == [n |-> 0, m |-> <<>>, re |-> 0, to |-> "none"]
Handled(r, to) ==
    [n |-> emitted - Len(buffer \o inbox) + 1, m |-> r.m, re |-> r.re, to |-> to]

\* A variant of the reply-wait that passes the messages it does not return
\* to trigger; C25_CallbackFromDrainOnly must tell it from WaitFate.
WaitFateTriggers(r, f) == IF f.act = "return" /\ f.val = r THEN "result" ELSE "callback"

\* filter_for_message returns the candidate, which goes to the result list,
\* or goes on (or raises) without it: no trigger in the reply-wait
WaitFate(r, f) == IF f.act = "return" /\ f.val = r THEN "result" ELSE "discarded"

\* msg = eISCP.get(self, False); if not msg: break; trigger(msg)
WDrain(t) ==
    /\ AsyncOnly
    /\ tpc[t] = "drain"
    /\ \E o \in GetOutcomes("unconnected") :
        CASE o.r.kind = "connfail" -> ConnFail(t, o.c, TRUE) /\ UNCHANGED handled
          [] o.r.kind = "assert" ->
                DieInTry(t, o.c) /\ UNCHANGED <<stop, joining, handled>>
          [] o.r.kind = "none" ->
                /\ SetConn(o.c)
                /\ tpc' = [tpc EXCEPT ![t] = "pop"]
                /\ UNCHANGED <<stop, joining, handled>>
          [] o.r.kind = "msg" ->
                /\ UNCHANGED <<stop, joining>>
                /\ handled' = IF Truthy(o.r) THEN Handled(o.r, "callback") ELSE handled
                /\ \E cb \in CallbackOutcomes :
                    IF Truthy(o.r) /\ cb = "raise"
                    THEN DieInTry(t, o.c)
                    ELSE /\ SetConn(o.c)
                         /\ tpc' = [tpc EXCEPT ![t] = IF Truthy(o.r) THEN "drain" ELSE "pop"]
    /\ UNCHANGED <<thread, curq, queues, titem, cpc, cop, nextId, result, wire,
                   calls, got, touched, emitted, replied>>

\* item = self._queue.get(timeout=0.01); queue.Empty: continue
WPop(t) ==
    /\ AsyncOnly /\ UNCHANGED handled
    /\ tpc[t] = "pop"
    /\ IF queues[curq] = <<>>
       THEN /\ tpc' = [tpc EXCEPT ![t] = "loop"]
            /\ UNCHANGED <<queues, titem>>
       ELSE /\ titem' = [titem EXCEPT ![t] = Head(queues[curq])]
            /\ queues' = [queues EXCEPT ![curq] = Tail(@)]
            /\ tpc' = [tpc EXCEPT ![t] = "send"]
    /\ UNCHANGED <<thread, stop, curq, sock, buffer, inbox, peerClosed, cpc,
                   cop, nextId, result, wire, calls, got, touched, emitted,
                   replied, joining>>

\* eISCP.send(self, message)
WSend(t) ==
    /\ AsyncOnly /\ UNCHANGED handled
    /\ tpc[t] = "send"
    /\ \E o \in SendOutcomes("unconnected") :
        CASE o.r = "connfail" ->
                ConnFail(t, o.c, TRUE) /\ UNCHANGED <<wire, titem>>
          [] o.r = "oserror" ->
                DieInTry(t, o.c) /\ UNCHANGED <<stop, joining, wire, titem>>
          [] o.r = "sent" ->
                /\ SetConn(o.c)
                /\ wire' = Append(wire, titem[t])
                /\ tpc' = [tpc EXCEPT ![t] = IF titem[t].ev THEN "wait" ELSE "loop"]
                /\ titem' = IF titem[t].ev THEN titem ELSE [titem EXCEPT ![t] = NoItem]
                /\ UNCHANGED <<stop, joining>>
    /\ UNCHANGED <<thread, curq, queues, cpc, cop, nextId, result, calls,
                   got, touched, emitted, replied>>

\* One pass of filter_for_message(super(Receiver, self).get, message) and,
\* when it ends, result.append(...) and event.set(). Only ValueError is
\* caught; the clock is left to the environment (late).
WWait(t) ==
    /\ AsyncOnly
    /\ tpc[t] = "wait"
    /\ \E o \in GetOutcomes("unconnected") :
        CASE o.r.kind = "connfail" ->
                ConnFail(t, o.c, TRUE) /\ UNCHANGED <<result, titem, handled>>
          [] o.r.kind = "assert" ->
                DieInTry(t, o.c) /\ UNCHANGED <<stop, joining, result, titem, handled>>
          [] OTHER ->
                /\ SetConn(o.c)
                /\ UNCHANGED <<stop, joining>>
                /\ \E late \in BOOLEAN :
                    LET f == FilterStep(o.r, titem[t].msg, late) IN
                    /\ handled' = IF o.r.kind = "msg"
                                  THEN Handled(o.r, WaitFate(o.r, f))
                                  ELSE handled
                    /\ IF f.act = "again"
                       THEN UNCHANGED <<tpc, result, titem>>
                       ELSE /\ result' = [result EXCEPT ![titem[t].id] = f.val]
                            /\ titem' = [titem EXCEPT ![t] = NoItem]
                            /\ tpc' = [tpc EXCEPT ![t] = "loop"]
    /\ UNCHANGED <<thread, curq, queues, cpc, cop, nextId, wire, calls,
                   got, touched, emitted, replied>>

----------------------------------------------------------------------------
\* The device at the other end of the command connection.

\* The device answers a message it was sent.
DeviceReply ==
    /\ AsyncOnly /\ UNCHANGED handled
    /\ sock = "connected" /\ ~peerClosed
    /\ emitted < MaxInbound
    /\ \E k \in 1..Len(wire) :
        /\ wire[k].id \notin replied
        /\ replied' = replied \cup {wire[k].id}
        /\ inbox' = Append(inbox, Frame(ReplyText(wire[k].msg), wire[k].id))
    /\ emitted' = emitted + 1
    /\ UNCHANGED <<thread, stop, curq, queues, sock, buffer, peerClosed, tpc,
                   titem, cpc, cop, nextId, result, wire, calls, got, touched,
                   joining>>

\* The device volunteers a status update, or sends a frame whose header
\* or payload fails an assertion of the codec.
DeviceEmit ==
    /\ AsyncOnly /\ UNCHANGED handled
    /\ sock = "connected" /\ ~peerClosed
    /\ emitted < MaxInbound
    /\ \E f \in {Frame(m, 0) : m \in Unsolicited} \cup {BadFrame} :
        inbox' = Append(inbox, f)
    /\ emitted' = emitted + 1
    /\ UNCHANGED <<thread, stop, curq, queues, sock, buffer, peerClosed, tpc,
                   titem, cpc, cop, nextId, result, wire, calls, got, touched,
                   replied, joining>>

\* The device closes the connection.
PeerClose ==
    /\ AsyncOnly /\ UNCHANGED handled
    /\ sock = "connected" /\ ~peerClosed
    /\ peerClosed' = TRUE
    /\ UNCHANGED <<thread, stop, curq, queues, sock, buffer, inbox, tpc, titem,
                   cpc, cop, nextId, result, wire, calls, got, touched, emitted,
                   replied, joining>>

----------------------------------------------------------------------------
\* The Receiver's specification. A Receiver starts with no thread, no
\* queue and no socket (eISCP.__init__).

Init ==
    /\ thread = 0
    /\ stop = FALSE
    /\ curq = 0
    /\ queues = [t \in Threads |-> <<>>]
    /\ sock = "none"
    /\ buffer = <<>>
    /\ inbox = <<>>
    /\ peerClosed = FALSE
    /\ tpc = [t \in Threads |-> "new"]
    /\ titem = [t \in Threads |-> NoItem]
    /\ cpc = [c \in Callers |-> "idle"]
    /\ cop = [c \in Callers |-> NoOp]
    /\ nextId = 1
    /\ result = [i \in Ids |-> Empty]
    /\ wire = <<>>
    /\ calls = 0
    /\ got = [c \in Callers |-> [id |-> 0, val |-> Empty]]
    /\ touched = {}
    /\ emitted = 0
    /\ replied = {}
    /\ joining = [t \in Threads |-> 0]
    /\ handled = NoHandled
    /\ spc = "off"
    /\ smsg = <<>>
    /\ elapsed = 0
    /\ polled = <<>>
    /\ didPoll = FALSE
    /\ sres = Empty
    /\ command = <<>>
    /\ packet = <<>>
    /\ mbuf = <<>>
    /\ message = NoResult
    /\ cstage = "off"
    /\ ExtraIdle

Next ==
    \/ \E c \in Callers, m \in CallerMsgs : Call(c, "send", m)
    \/ \E c \in Callers, m \in CallerMsgs : Call(c, "raw", m)
    \/ \E c \in Callers : EnsureThreadCreate(c)
    \/ \E c \in Callers : QueuePut(c)
    \/ \E c \in Callers : RawReturn(c)
    \/ \E c \in Callers : Disconnect(c)
    \/ \E c \in Callers : DisconnectJoined(c)
    \/ \E c \in Callers : Enter(c)
    \/ \E t \in Threads : WConnect(t)
    \/ \E t \in Threads : WJoined(t)
    \/ \E t \in Threads : WLoop(t)
    \/ \E t \in Threads : WDrain(t)
    \/ \E t \in Threads : WPop(t)
    \/ \E t \in Threads : WSend(t)
    \/ \E t \in Threads : WWait(t)
    \/ DeviceReply
    \/ DeviceEmit
    \/ PeerClose

Spec == Init /\ [][Next]_vars

\* The Receiver once its first call has started the worker: caller c1 is
\* in raw, past _ensure_thread_running, about to put its item; the callers
\* make requests (raw) only, and nobody calls disconnect or __enter__, so
\* no second Thread is ever started.
RunningInit ==
    /\ thread = 1
    /\ stop = FALSE
    /\ curq = 1
    /\ queues = [t \in Threads |-> <<>>]
    /\ sock = "none"
    /\ buffer = <<>>
    /\ inbox = <<>>
    /\ peerClosed = FALSE
    /\ tpc = [t \in Threads |-> IF t = 1 THEN "connect" ELSE "new"]
    /\ titem = [t \in Threads |-> NoItem]
    /\ \E m \in CallerMsgs :
        cop = [c \in Callers |-> IF c = "c1" THEN [kind |-> "raw", msg |-> m, id |-> 0]
                                 ELSE NoOp]
    /\ cpc = [c \in Callers |-> IF c = "c1" THEN "put" ELSE "idle"]
    /\ nextId = 1
    /\ result = [i \in Ids |-> Empty]
    /\ wire = <<>>
    /\ calls = 1
    /\ got = [c \in Callers |-> [id |-> 0, val |-> Empty]]
    /\ touched = {}
    /\ emitted = 0
    /\ replied = {}
    /\ joining = [t \in Threads |-> 0]
    /\ handled = NoHandled
    /\ spc = "off"
    /\ smsg = <<>>
    /\ elapsed = 0
    /\ polled = <<>>
    /\ didPoll = FALSE
    /\ sres = Empty
    /\ command = <<>>
    /\ packet = <<>>
    /\ mbuf = <<>>
    /\ message = NoResult
    /\ cstage = "off"
    /\ ExtraIdle

RunningNext ==
    \/ \E c \in Callers, m \in CallerMsgs : Call(c, "raw", m)
    \/ \E c \in Callers : QueuePut(c)
    \/ \E c \in Callers : RawReturn(c)
    \/ \E t \in Threads : WConnect(t)
    \/ \E t \in Threads : WLoop(t)
    \/ \E t \in Threads : WDrain(t)
    \/ \E t \in Threads : WPop(t)
    \/ \E t \in Threads : WSend(t)
    \/ \E t \in Threads : WWait(t)
    \/ DeviceReply
    \/ DeviceEmit
    \/ PeerClose

RunningSpec == RunningInit /\ [][RunningNext]_vars

----------------------------------------------------------------------------
\* eISCP.raw, run by the one context that uses a blocking client. Time is
\* counted in ticks of the poll timeout.

\* getter_func(0.05): one tick
PollTicks == 1
\* time.time() - start > 5.0: one hundred ticks
BudgetTicks == 100

\* frames the device emits while raw runs
MaxSyncInbound == 2

SyncMsgs == {PVR00, MGSx, CTVUP}
SyncFrames == {Frame(PVR01, 0), Frame(MDIx, 0), Frame(CTV01, 0), BadFrame}

\* The frames that may be waiting on the connection when raw is called,
\* marked 1: a message, and an empty message.
QueuedFrames == {Frame(PVR01, 1), Frame(<<>>, 1)}

\* A step of eISCP.raw leaves the Receiver's variables alone.
SyncOnly ==
    UNCHANGED <<thread, stop, curq, queues, tpc, titem, cpc, cop, nextId,
                result, wire, calls, got, touched, replied, joining, handled,
                cvars, xvars>>

\* raw: while self.get(False): pass
SDrain ==
    /\ spc = "drain"
    /\ \E o \in GetOutcomes("none") :
        /\ SetConn(o.c)
        /\ IF o.r.kind \in {"assert", "connfail"}
           THEN spc' = "done" /\ sres' = o.r
           ELSE /\ spc' = IF Truthy(o.r) THEN "drain" ELSE "send"
                /\ sres' = sres
    /\ UNCHANGED <<smsg, elapsed, polled, didPoll, emitted>>
    /\ SyncOnly

\* raw: self.send(iscp_message); filter_for_message: start = time.time()
SSend ==
    /\ spc = "send"
    /\ \E o \in SendOutcomes("none") :
        /\ SetConn(o.c)
        /\ IF o.r = "sent"
           THEN spc' = "filter" /\ sres' = sres
           ELSE spc' = "done" /\ sres' = Raised(o.r)
    /\ elapsed' = 0
    /\ UNCHANGED <<smsg, polled, didPoll, emitted>>
    /\ SyncOnly

\* filter_for_message: one pass of its loop. A poll that finds nothing
\* takes its whole timeout, any other poll up to that.
SPoll ==
    /\ spc = "filter"
    /\ \E o \in GetOutcomes("none") :
       \E d \in IF o.w THEN {PollTicks} ELSE 0..PollTicks :
        /\ SetConn(o.c)
        /\ elapsed' = elapsed + d
        /\ didPoll' = TRUE
        /\ polled' = IF Truthy(o.r) THEN Append(polled, o.r) ELSE polled
        /\ IF o.r.kind \in {"assert", "connfail"}
           THEN spc' = "done" /\ sres' = o.r
           ELSE LET f == FilterStep(o.r, smsg, elapsed + d > BudgetTicks) IN
                IF f.act = "again"
                THEN UNCHANGED <<spc, sres>>
                ELSE spc' = "done" /\ sres' = f.val
    /\ UNCHANGED <<smsg, emitted>>
    /\ SyncOnly

\* The device sends a frame.
SDeviceEmit ==
    /\ spc \in {"drain", "send", "filter"}
    /\ sock = "connected" /\ ~peerClosed
    /\ emitted < MaxSyncInbound
    /\ \E f \in SyncFrames : inbox' = Append(inbox, f)
    /\ emitted' = emitted + 1
    /\ UNCHANGED <<sock, buffer, peerClosed, svars>>
    /\ SyncOnly

\* The device closes the connection.
SPeerClose ==
    /\ spc \in {"drain", "send", "filter"}
    /\ sock = "connected" /\ ~peerClosed
    /\ peerClosed' = TRUE
    /\ UNCHANGED <<sock, buffer, inbox, emitted, svars>>
    /\ SyncOnly

\* raw(smsg) is called on a new eISCP (no socket, an empty buffer), or on
\* a connected one with frames waiting to be read.
SyncInit ==
    /\ thread = 0
    /\ stop = FALSE
    /\ curq = 0
    /\ queues = [t \in Threads |-> <<>>]
    /\ \/ sock = "none" /\ inbox = <<>>
       \/ /\ sock = "connected"
          /\ inbox \in UNION { [1..n -> QueuedFrames] : n \in 1..MaxSyncInbound }
    /\ buffer = <<>>
    /\ peerClosed = FALSE
    /\ tpc = [t \in Threads |-> "new"]
    /\ titem = [t \in Threads |-> NoItem]
    /\ cpc = [c \in Callers |-> "idle"]
    /\ cop = [c \in Callers |-> NoOp]
    /\ nextId = 1
    /\ result = [i \in Ids |-> Empty]
    /\ wire = <<>>
    /\ calls = 0
    /\ got = [c \in Callers |-> [id |-> 0, val |-> Empty]]
    /\ touched = {}
    /\ emitted = Len(inbox)
    /\ replied = {}
    /\ joining = [t \in Threads |-> 0]
    /\ handled = NoHandled
    /\ spc = "drain"
    /\ smsg \in SyncMsgs
    /\ elapsed = 0
    /\ polled = <<>>
    /\ didPoll = FALSE
    /\ sres = Empty
    /\ command = <<>>
    /\ packet = <<>>
    /\ mbuf = <<>>
    /\ message = NoResult
    /\ cstage = "off"
    /\ ExtraIdle

SyncNext == SDrain \/ SSend \/ SPoll \/ SDeviceEmit \/ SPeerClose

SyncSpec == SyncInit /\ [][SyncNext]_vars


----------------------------------------------------------------------------
\* The round trip: a command through command_to_packet, MessageBuffer.recv
\* and MessageBuffer.get_message.

\* the longest command
MaxLen == 3

\* The characters of a command: P, EOF, CR, LF and e with acute accent.
Alphabet == {80, EOF, CR, LF, 233}

Commands == UNION {[1..n -> Alphabet] : n \in 0..MaxLen}

\* A step of the codec leaves the clients' variables alone.
CodecOnly == UNCHANGED <<avars, svars, xvars>>

\* packet = command_to_packet(command)
Encode ==
    /\ cstage = "encode"
    /\ packet' = CommandToPacket(command)
    /\ cstage' = "recv"
    /\ UNCHANGED <<command, mbuf, message>>
    /\ CodecOnly

\* MessageBuffer.recv(packet)
Recv ==
    /\ cstage = "recv"
    /\ mbuf' = mbuf \o packet
    /\ cstage' = "get"
    /\ UNCHANGED <<command, packet, message>>
    /\ CodecOnly

\* MessageBuffer.get_message()
Decode ==
    /\ cstage = "get"
    /\ LET g == GetMessageBytes(mbuf) IN
        /\ message' = g.r
        /\ mbuf' = g.buffer
    /\ cstage' = "done"
    /\ UNCHANGED <<command, packet>>
    /\ CodecOnly

CodecInit ==
    /\ thread = 0
    /\ stop = FALSE
    /\ curq = 0
    /\ queues = [t \in Threads |-> <<>>]
    /\ sock = "none"
    /\ buffer = <<>>
    /\ inbox = <<>>
    /\ peerClosed = FALSE
    /\ tpc = [t \in Threads |-> "new"]
    /\ titem = [t \in Threads |-> NoItem]
    /\ cpc = [c \in Callers |-> "idle"]
    /\ cop = [c \in Callers |-> NoOp]
    /\ nextId = 1
    /\ result = [i \in Ids |-> Empty]
    /\ wire = <<>>
    /\ calls = 0
    /\ got = [c \in Callers |-> [id |-> 0, val |-> Empty]]
    /\ touched = {}
    /\ emitted = 0
    /\ replied = {}
    /\ joining = [t \in Threads |-> 0]
    /\ handled = NoHandled
    /\ spc = "off"
    /\ smsg = <<>>
    /\ elapsed = 0
    /\ polled = <<>>
    /\ didPoll = FALSE
    /\ sres = Empty
    /\ command \in Commands
    /\ packet = <<>>
    /\ mbuf = <<>>
    /\ message = NoResult
    /\ cstage = "encode"
    /\ ExtraIdle

CodecNext == Encode \/ Recv \/ Decode

CodecSpec == CodecInit /\ [][CodecNext]_vars

----------------------------------------------------------------------------
\* The starting values of the clients' and the codec's variables in the
\* specifications that do not run them.

AsyncIdle ==
    /\ thread = 0
    /\ stop = FALSE
    /\ curq = 0
    /\ queues = [t \in Threads |-> <<>>]
    /\ sock = "none"
    /\ buffer = <<>>
    /\ inbox = <<>>
    /\ peerClosed = FALSE
    /\ tpc = [t \in Threads |-> "new"]
    /\ titem = [t \in Threads |-> NoItem]
    /\ cpc = [c \in Callers |-> "idle"]
    /\ cop = [c \in Callers |-> NoOp]
    /\ nextId = 1
    /\ result = [i \in Ids |-> Empty]
    /\ wire = <<>>
    /\ calls = 0
    /\ got = [c \in Callers |-> [id |-> 0, val |-> Empty]]
    /\ touched = {}
    /\ emitted = 0
    /\ replied = {}
    /\ joining = [t \in Threads |-> 0]
    /\ handled = NoHandled

SyncIdle ==
    /\ spc = "off"
    /\ smsg = <<>>
    /\ elapsed = 0
    /\ polled = <<>>
    /\ didPoll = FALSE
    /\ sres = Empty

CodecIdle ==
    /\ command = <<>>
    /\ packet = <<>>
    /\ mbuf = <<>>
    /\ message = NoResult
    /\ cstage = "off"

----------------------------------------------------------------------------
\* MessageBuffer fed a stream of well-formed frames in chunks: recv with
\* one chunk, then get_message until it returns None, chunk after chunk.

\* the most frames in the stream
MaxFrames == 2

\* The frames the device may send: the body and the end characters that
\* follow EOF. Bodies: P, e with acute accent, PP and the empty body.
FrameTexts ==
    { [body |-> <<80>>, end |-> <<CR>>],
      [body |-> <<233>>, end |-> <<CR, LF>>],
      [body |-> <<80, 80>>, end |-> <<>>],
      [body |-> <<>>, end |-> <<LF>>] }

\* The ISCP message of a frame, as ISCPMessage.parse expects it.
FrameMessage(f) == StartUnit \o f.body \o <<EOF>> \o f.end

\* A well-formed frame, as parse_header expects it: magic, header size 16,
\* the number of bytes of the payload, version, reserved, then the payload.
WellFormedFrame(f) ==
    Magic \o PackI(HeaderSize) \o PackI(Len(Utf8Encode(FrameMessage(f))))
        \o <<1>> \o <<0, 0, 0>> \o Utf8Encode(FrameMessage(f))

\* The bytes of the frames fs, one after the other.
RECURSIVE StreamOf(_)
StreamOf(fs) ==
    IF fs = <<>> THEN <<>> ELSE WellFormedFrame(Head(fs)) \o StreamOf(Tail(fs))

\* A step of the chunk feeder leaves the other variables alone.
ChunkOnly == UNCHANGED <<avars, svars, cvars, dvars, tvars, zvars, nvars>>

\* MessageBuffer.recv(data), data being the next n bytes of the stream
RecvChunk ==
    /\ kstage = "feed"
    /\ \E n \in 1..(Len(StreamOf(texts)) - fed) :
        /\ chunkbuf' = chunkbuf \o SubSeq(StreamOf(texts), fed + 1, fed + n)
        /\ fed' = fed + n
    /\ kstage' = "get"
    /\ UNCHANGED <<texts, outs, partial>>
    /\ ChunkOnly

\* MessageBuffer.get_message(), called again until it returns None
GetNext ==
    /\ kstage = "get"
    /\ LET g == GetMessageBytes(chunkbuf) IN
        /\ chunkbuf' = g.buffer
        /\ outs' = IF g.r.kind = "msg" THEN Append(outs, g.r.m) ELSE outs
        /\ partial' = (partial \/ (g.r.kind = "none" /\ g.buffer # <<>>))
        /\ kstage' = IF g.r.kind = "msg" THEN "get"
                     ELSE IF g.r.kind # "none" THEN "failed"
                     ELSE IF fed = Len(StreamOf(texts)) THEN "done"
                     ELSE "feed"
    /\ UNCHANGED <<texts, fed>>
    /\ ChunkOnly

\* A new MessageBuffer and a stream of up to MaxFrames frames.
ChunkInit ==
    /\ AsyncIdle
    /\ SyncIdle
    /\ CodecIdle
    /\ texts \in UNION {[1..n -> FrameTexts] : n \in 0..MaxFrames}
    /\ fed = 0
    /\ chunkbuf = <<>>
    /\ outs = <<>>
    /\ partial = FALSE
    /\ kstage = "get"
    /\ DiscoverIdle
    /\ TranslateIdle
    /\ BufferIdle
    /\ ViewIdle

ChunkNext == RecvChunk \/ GetNext

ChunkSpec == ChunkInit /\ [][ChunkNext]_vars

----------------------------------------------------------------------------
\* A connection whose stream holds malformed frames: the polls of eISCP.get
\* on the bytes (get_message, then recv and get_message again), and the
\* reconnect that resets the buffer.

\* What is wrong with a frame: nothing, a magic other than ISCP, a header
\* length other than 16, a payload without '!1', a payload without EOF.
Faults == {"none", "magic", "headersize", "prefix", "eof"}

\* the frames of the stream: the message 'P' ended by CR, with any fault
FaultFrames == [body : {<<80>>}, end : {<<CR>>}, fault : Faults]

\* The bytes of frame f.
FaultFrame(f) ==
    LET msg == IF f.fault = "prefix" THEN <<33, 50>> \o f.body \o <<EOF>> \o f.end
               ELSE IF f.fault = "eof" THEN StartUnit \o f.body \o f.end
               ELSE FrameMessage(f)
    IN  (IF f.fault = "magic" THEN <<73, 83, 67, 81>> ELSE Magic)
            \o PackI(IF f.fault = "headersize" THEN HeaderSize + 1 ELSE HeaderSize)
            \o PackI(Len(Utf8Encode(msg))) \o <<1>> \o <<0, 0, 0>> \o Utf8Encode(msg)

RECURSIVE FaultStream(_)
FaultStream(fs) ==
    IF fs = <<>> THEN <<>> ELSE FaultFrame(Head(fs)) \o FaultStream(Tail(fs))

\* The frames of fs of which no byte is among the first n of the stream.
RECURSIVE Unread(_, _)
Unread(fs, n) ==
    IF fs = <<>> \/ n <= 0 THEN fs
    ELSE Unread(Tail(fs), n - Len(FaultFrame(Head(fs))))

\* eISCP.get, its calls of get_message: the one that opens a poll (the
\* poll returns the message if there is one, and goes on to recv if not)
\* and the one that follows recv. An assertion that fails leaves get, and
\* the next poll starts with get_message again.
FGet ==
    /\ kstage \in {"get", "failed"}
    /\ LET g == GetMessageBytes(chunkbuf) IN
        /\ chunkbuf' = g.buffer
        /\ outs' = IF g.r.kind = "msg" THEN Append(outs, g.r.m) ELSE outs
        /\ partial' = (partial \/ (g.r.kind = "none" /\ g.buffer # <<>>))
        /\ kstage' = IF g.r.kind = "msg" THEN "get"
                     ELSE IF g.r.kind # "none" THEN "failed"
                     ELSE IF fed = Len(FaultStream(texts)) THEN "done"
                     ELSE "feed"
    /\ UNCHANGED <<texts, fed>>
    /\ ChunkOnly

\* eISCP.get, select ready: recv gives the next n bytes of the stream
FRecv ==
    /\ kstage = "feed"
    /\ \E n \in 1..(Len(FaultStream(texts)) - fed) :
        /\ chunkbuf' = chunkbuf \o SubSeq(FaultStream(texts), fed + 1, fed + n)
        /\ fed' = fed + n
    /\ kstage' = "get"
    /\ UNCHANGED <<texts, outs, partial>>
    /\ ChunkOnly

\* eISCP.disconnect, then _ensure_socket_connected: a new socket and
\* _message_buffer.reset(). What the old socket had not read is gone; the
\* new one carries the frames the device had not begun to send.
FReconnect ==
    /\ kstage \in {"get", "feed", "failed", "done"}
    /\ texts # <<>>
    /\ texts' = Unread(texts, fed)
    /\ fed' = 0
    /\ chunkbuf' = <<>>
    /\ kstage' = "get"
    /\ UNCHANGED <<outs, partial>>
    /\ ChunkOnly

\* A new connection and a stream of up to MaxFrames frames.
FaultInit ==
    /\ AsyncIdle
    /\ SyncIdle
    /\ CodecIdle
    /\ texts \in UNION {[1..n -> FaultFrames] : n \in 1..MaxFrames}
    /\ fed = 0
    /\ chunkbuf = <<>>
    /\ outs = <<>>
    /\ partial = FALSE
    /\ kstage = "get"
    /\ DiscoverIdle
    /\ TranslateIdle
    /\ BufferIdle
    /\ ViewIdle

FaultNext == FGet \/ FRecv \/ FReconnect

FaultSpec == FaultInit /\ [][FaultNext]_vars

----------------------------------------------------------------------------
\* eISCP.discover: a scan of the interface addresses, one UDP socket each.

\* the interface addresses netifaces reports
MaxIfaces == 2
\* the datagrams read during one discover
MaxResponses == 3

DeviceIds == {"id1", "id2"}
Hosts == {"h1", "h2"}

\* The position of identifier id in found_receivers (0: not a key).
KeyIndex(fr, id) ==
    IF \E k \in 1..Len(fr) : fr[k].id = id
    THEN CHOOSE k \in 1..Len(fr) : fr[k].id = id
    ELSE 0

\* A variant of the dict assignment that adds an entry per response;
\* C12_OneRecordPerIdentifier must tell it from SetItem.
SetItemAppends(fr, id, receiver) == Append(fr, receiver)

\* found_receivers[id] = receiver: a dict keeps the place of a key it
\* already has and puts a new key last.
SetItem(fr, id, receiver) ==
    IF KeyIndex(fr, id) = 0 THEN Append(fr, receiver)
    ELSE [fr EXCEPT ![KeyIndex(fr, id)] = receiver]

\* (clazz or eISCP)(addr[0], port) with receiver.info = info: __init__
\* stores the address and sets command_socket to None; it connects on demand.
NewReceiver(id, h) == [id |-> id, host |-> h, command_socket |-> "none"]

\* A step of discover leaves the other variables alone.
DiscoverOnly == UNCHANGED <<avars, svars, cvars, kvars, tvars, zvars, nvars>>

\* The next interface address: skipped (no AF_INET address, or no addr or
\* broadcast), or a socket is made and the two magics are sent, which may
\* raise OSError with the socket left open.
DScan ==
    /\ dpc = "scan"
    /\ ifleft > 0
    /\ \E o \in {"skip", "open", "oserror"} :
        /\ dpc' = IF o = "open" THEN "poll" ELSE IF o = "skip" THEN "scan" ELSE "raised"
        /\ dopen' = IF o = "skip" THEN dopen ELSE dopen + 1
        /\ ifleft' = IF o = "skip" THEN ifleft - 1 ELSE ifleft
    /\ UNCHANGED <<found, heard, nresp, dresult>>
    /\ DiscoverOnly

\* select is ready: recvfrom, parse_info, found_receivers[identifier] =
\* receiver; parse_info raises on a datagram that is not a response.
DRecv ==
    /\ dpc = "poll"
    /\ nresp < MaxResponses
    /\ nresp' = nresp + 1
    /\ \/ \E id \in DeviceIds, h \in Hosts :
            /\ found' = SetItem(found, id, NewReceiver(id, h))
            /\ heard' = heard \cup {[id |-> id, host |-> h]}
            /\ dpc' = "poll"
       \/ /\ dpc' = "raised"
          /\ UNCHANGED <<found, heard>>
    /\ UNCHANGED <<ifleft, dopen, dresult>>
    /\ DiscoverOnly

\* select times out: sock.close(), on to the next interface address
DTimeout ==
    /\ dpc = "poll"
    /\ dopen' = dopen - 1
    /\ ifleft' = ifleft - 1
    /\ dpc' = "scan"
    /\ UNCHANGED <<found, heard, nresp, dresult>>
    /\ DiscoverOnly

\* return list(found_receivers.values())
DReturn ==
    /\ dpc = "scan"
    /\ ifleft = 0
    /\ dresult' = found
    /\ dpc' = "done"
    /\ UNCHANGED <<ifleft, found, heard, dopen, nresp>>
    /\ DiscoverOnly

DiscoverInit ==
    /\ AsyncIdle
    /\ SyncIdle
    /\ CodecIdle
    /\ ChunkIdle
    /\ TranslateIdle
    /\ BufferIdle
    /\ ViewIdle
    /\ dpc = "scan"
    /\ ifleft \in 0..MaxIfaces
    /\ found = <<>>
    /\ heard = {}
    /\ dopen = 0
    /\ nresp = 0
    /\ dresult = <<>>

DiscoverNext == DScan \/ DRecv \/ DTimeout \/ DReturn

DiscoverSpec == DiscoverInit /\ [][DiscoverNext]_vars

----------------------------------------------------------------------------
\* The pretty commands: a caller translates one zone, command and argument
\* with command_to_iscp, in each of the three shapes of the call, and
\* translates the code of the explicit call back with iscp_to_command.

MaxLevel == 201

\* The zones, commands and arguments a caller asks for.  The last argument
\* is no alias and no number.
TZones == {PyNone, PyStr(Main), PyStr(Zone2)}
TCommands == {<<"p", "o", "w", "e", "r">>, <<"v", "o", "l", "u", "m", "e">>, <<"s", "u", "b", "w", "o", "o", "f", "e", "r", "-", "l", "e", "v", "e", "l">>, <<"c", "e", "n", "t", "e", "r", "-", "l", "e", "v", "e", "l">>}
TArguments ==
    {PyStr(<<"o", "n">>), PyStr(<<"s", "t", "a", "n", "d", "b", "y">>), PyStr(<<"l", "e", "v", "e", "l", "-", "u", "p">>), PyStr(<<"u", "p">>), PyStr(<<"l", "o", "u", "d">>)}
        \cup {PyInt(n) : n \in (0 - MaxLevel)..MaxLevel}

\* str(n)
RECURSIVE DecOfNat(_)
DecOfNat(n) ==
    IF n < 10 THEN <<Digits[n + 1]>>
    ELSE DecOfNat(n \div 10) \o <<Digits[(n % 10) + 1]>>

StrOfInt(n) == IF n >= 0 THEN DecOfNat(n) ELSE <<"-">> \o DecOfNat(0 - n)

\* The argument as the caller writes it in a string.
ArgText(a) == IF a.t = "int" THEN StrOfInt(a.n) ELSE a.s

\* 'zone.command=argument' and 'command=argument'
EqualsText(r) ==
    (IF r.zone.t = "none" THEN <<>> ELSE r.zone.s \o <<".">>)
        \o r.command \o <<"=">> \o ArgText(r.argument)

\* 'zone command argument' and 'command argument'
SpacesText(r) ==
    (IF r.zone.t = "none" THEN <<>> ELSE r.zone.s \o <<" ">>)
        \o r.command \o <<" ">> \o ArgText(r.argument)

\* command_to_iscp called in the shape sh
CallShape(sh, r) ==
    CASE sh = "explicit" -> CommandToIscp(r.command, r.argument, r.zone)
      [] sh = "equals" -> CommandToIscp(EqualsText(r), PyNone, PyNone)
      [] sh = "spaces" -> CommandToIscp(SpacesText(r), PyNone, PyNone)

TranslateOnly == UNCHANGED <<avars, svars, cvars, kvars, dvars, zvars, nvars>>

\* command_to_iscp, called in the shape sh
ToProtocol(sh) ==
    /\ treq # NoRequest
    /\ touts[sh] = NotCalled
    /\ touts' = [touts EXCEPT ![sh] = CallShape(sh, treq)]
    /\ UNCHANGED <<treq, tback>>
    /\ TranslateOnly

\* iscp_to_command(code, with_zone=True), on the code of the explicit call
FromProtocol ==
    /\ touts["explicit"].kind = "code"
    /\ tback = NoBack
    /\ tback' = IscpToCommand(touts["explicit"].code)
    /\ UNCHANGED <<treq, touts>>
    /\ TranslateOnly

TranslateInit ==
    /\ AsyncIdle
    /\ SyncIdle
    /\ CodecIdle
    /\ ChunkIdle
    /\ DiscoverIdle
    /\ BufferIdle
    /\ ViewIdle
    /\ treq \in [zone : TZones, command : TCommands, argument : TArguments]
    /\ touts = [sh \in Shapes |-> NotCalled]
    /\ tback = NoBack

TranslateNext ==
    \/ \E sh \in Shapes : ToProtocol(sh)
    \/ FromProtocol

TranslateSpec == TranslateInit /\ [][TranslateNext]_vars

----------------------------------------------------------------------------
\* The eISCP client counted in bytes: what _message_buffer holds, what the
\* socket has ready, and the sizes of the frames the two together hold.
\* The buffer's capacity is scaled down from 64 KiB.

Capacity == 20
MaxEmitted == 2

\* The sizes of the frames the device sends, header included: a short
\* one, one that fills the buffer to the last byte, and one that is a byte
\* longer than the buffer.
FrameSizes == {HeaderSize + 1, Capacity, Capacity + 1}

\* The connection: command_socket, the buffer and the socket's stream.
ZConn(s, l, p, c, f) == [sock |-> s, len |-> l, pend |-> p, closed |-> c, frames |-> f]

\* A variant of available for a buffer that takes two bytes more than its
\* size; C27_OversizeNeverDelivered must tell it from Available.
AvailableTwoMore(len) == Capacity + 2 - len

\* MessageBuffer.available
Available(len) == Capacity - len

\* MessageBuffer.get_message: whether a message is returned, and the
\* buffer left.
ZGetMessage(len, frames) ==
    IF len >= HeaderSize /\ frames # <<>> /\ len >= Head(frames)
    THEN [got |-> TRUE, len |-> len - Head(frames), frames |-> Tail(frames)]
    ELSE [got |-> FALSE, len |-> len, frames |-> frames]

\* eISCP.disconnect: the socket is closed and what it had ready is gone;
\* the buffer keeps its bytes.
ZClosed(z) == ZConn("none", z.len, 0, FALSE, z.frames)

\* A variant of the connect that does not reset the buffer;
\* C19_ZeroReadDisconnects must tell it from ZEnsureOutcomes.
ZEnsureKeepsBuffer(z) ==
    IF z.sock = "none"
    THEN { [ok |-> TRUE, z |-> ZConn("connected", z.len, 0, FALSE, z.frames), stale |-> 0],
           [ok |-> FALSE, z |-> ZClosed(z), stale |-> 0] }
    ELSE { [ok |-> TRUE, z |-> z, stale |-> 0] }

\* eISCP._ensure_socket_connected on connection z: connected before, or
\* connected now with the buffer reset (stale: the bytes it held), or the
\* connect fails, eISCP.disconnect runs and the OSError is raised.
ZEnsureOutcomes(z) ==
    IF z.sock = "none"
    THEN { [ok |-> TRUE, z |-> ZConn("connected", 0, 0, FALSE, <<>>), stale |-> z.len],
           [ok |-> FALSE, z |-> ZClosed(z), stale |-> 0] }
    ELSE { [ok |-> TRUE, z |-> z, stale |-> 0] }

\* A variant of the read that asks for everything the socket has ready;
\* C20_BufferWithinCapacity must tell it from ReadSizes.
ReadSizesAll(available, pend) == IF pend = 0 THEN {0} ELSE 1..pend

\* command_socket.recv(available) on a readable socket: how many bytes it
\* may return. Nothing when nothing is asked for or the peer has closed
\* and nothing is left.
ReadSizes(available, pend) ==
    IF Min(available, pend) = 0 THEN {0} ELSE 1..Min(available, pend)

\* eISCP.get once the socket is ensured: what it returns (r), the
\* connection left, and why it disconnected ("" if it did not).
ZGetOn(z) ==
    LET first == ZGetMessage(z.len, z.frames) IN
    IF first.got
    THEN { [r |-> "msg", z |-> ZConn(z.sock, first.len, z.pend, z.closed, first.frames), why |-> ""] }
    ELSE IF z.pend = 0 /\ ~z.closed
    THEN { [r |-> "none", z |-> z, why |-> ""] }
    ELSE { LET len == z.len + n
               g == ZGetMessage(len, z.frames)
           IN  IF n = 0
               THEN [r |-> "none", z |-> ZClosed(z), why |-> "zero"]
               ELSE [r |-> IF g.got THEN "msg" ELSE "none",
                     z |-> ZConn(z.sock, g.len, z.pend - n, z.closed, g.frames),
                     why |-> ""]
           : n \in ReadSizes(Available(z.len), z.pend) }
         \cup (IF z.closed
               THEN { [r |-> "none", z |-> ZClosed(z), why |-> "oserror"] }
               ELSE {})

\* eISCP.get
ZGetOutcomes(z) ==
    UNION { IF e.ok
            THEN { [r |-> o.r, z |-> o.z, why |-> o.why, stale |-> e.stale] : o \in ZGetOn(e.z) }
            ELSE { [r |-> "connfail", z |-> e.z, why |-> "connfail", stale |-> 0] }
            : e \in ZEnsureOutcomes(z) }

\* eISCP.send: a write after the peer closed may raise OSError
ZSendOutcomes(z) ==
    UNION { IF ~e.ok
            THEN { [r |-> "connfail", z |-> e.z, why |-> "connfail", stale |-> 0] }
            ELSE { [r |-> "sent", z |-> e.z, why |-> "", stale |-> e.stale] }
                 \cup (IF e.z.closed
                       THEN { [r |-> "oserror", z |-> e.z, why |-> "", stale |-> e.stale] }
                       ELSE {})
            : e \in ZEnsureOutcomes(z) }

ZNow == ZConn(zsock, zlen, zpend, zclosed, zframes)

\* What an operation that ended in outcome o leaves.
ZSet(o) ==
    /\ zsock' = o.z.sock
    /\ zlen' = o.z.len
    /\ zpend' = o.z.pend
    /\ zclosed' = o.z.closed
    /\ zframes' = o.z.frames
    /\ zlast' = o.r
    /\ zwhy' = IF o.why = "" THEN zwhy ELSE o.why
    /\ zstale' = o.stale

BufferOnly == UNCHANGED <<avars, svars, cvars, kvars, dvars, tvars, nvars>>

\* eISCP.__enter__: _ensure_socket_connected
ZConnect ==
    /\ zpc = "idle"
    /\ \E e \in ZEnsureOutcomes(ZNow) :
        ZSet([r |-> IF e.ok THEN "connected" ELSE "connfail", z |-> e.z,
              why |-> IF e.ok THEN "" ELSE "connfail", stale |-> e.stale])
    /\ UNCHANGED <<zpc, zemitted>>
    /\ BufferOnly

\* eISCP.__exit__: disconnect
ZDisconnect ==
    /\ zpc = "idle"
    /\ zsock = "connected"
    /\ ZSet([r |-> "closed", z |-> ZClosed(ZNow), why |-> "exit", stale |-> 0])
    /\ UNCHANGED <<zpc, zemitted>>
    /\ BufferOnly

\* eISCP.send
ZSend ==
    /\ zpc = "idle"
    /\ \E o \in ZSendOutcomes(ZNow) : ZSet(o)
    /\ UNCHANGED <<zpc, zemitted>>
    /\ BufferOnly

\* eISCP.get
ZGet ==
    /\ zpc = "idle"
    /\ \E o \in ZGetOutcomes(ZNow) : ZSet(o)
    /\ UNCHANGED <<zpc, zemitted>>
    /\ BufferOnly

\* eISCP.raw: while self.get(False): pass
ZRawDrain ==
    /\ zpc \in {"idle", "drain"}
    /\ \E o \in ZGetOutcomes(ZNow) :
        /\ ZSet(o)
        /\ zpc' = IF o.r = "msg" THEN "drain" ELSE IF o.r = "connfail" THEN "idle" ELSE "send"
    /\ UNCHANGED zemitted
    /\ BufferOnly

\* eISCP.raw: self.send(iscp_message)
ZRawSend ==
    /\ zpc = "send"
    /\ \E o \in ZSendOutcomes(ZNow) :
        /\ ZSet(o)
        /\ zpc' = IF o.r = "sent" THEN "filter" ELSE "idle"
    /\ UNCHANGED zemitted
    /\ BufferOnly

\* eISCP.raw: filter_for_message(self.get, iscp_message), one poll: the
\* message is the response or not, the time is up or not
ZRawFilter ==
    /\ zpc = "filter"
    /\ \E o \in ZGetOutcomes(ZNow) :
        /\ ZSet(o)
        /\ zpc' \in IF o.r = "connfail" THEN {"idle"} ELSE {"idle", "filter"}
    /\ UNCHANGED zemitted
    /\ BufferOnly

\* The device sends a frame.
ZDeviceEmit ==
    /\ zsock = "connected"
    /\ ~zclosed
    /\ zemitted < MaxEmitted
    /\ \E size \in FrameSizes :
        /\ zpend' = zpend + size
        /\ zframes' = Append(zframes, size)
    /\ zemitted' = zemitted + 1
    /\ UNCHANGED <<zsock, zlen, zclosed, zpc, zlast, zwhy, zstale>>
    /\ BufferOnly

\* The device closes the connection, possibly before all the bytes of its
\* last frame are on their way.
ZPeerClose ==
    /\ zsock = "connected"
    /\ ~zclosed
    /\ zclosed' = TRUE
    /\ zpend' \in {zpend, zpend \div 2}
    /\ UNCHANGED <<zsock, zlen, zframes, zpc, zlast, zwhy, zstale, zemitted>>
    /\ BufferOnly

BufferInit ==
    /\ AsyncIdle
    /\ SyncIdle
    /\ CodecIdle
    /\ ChunkIdle
    /\ DiscoverIdle
    /\ TranslateIdle
    /\ ViewIdle
    /\ zsock = "none"
    /\ zlen = 0
    /\ zpend = 0
    /\ zclosed = FALSE
    /\ zframes = <<>>
    /\ zpc = "idle"
    /\ zlast = "none"
    /\ zwhy = ""
    /\ zstale = 0
    /\ zemitted = 0

BufferNext ==
    \/ ZConnect
    \/ ZDisconnect
    \/ ZSend
    \/ ZGet
    \/ ZRawDrain
    \/ ZRawSend
    \/ ZRawFilter
    \/ ZDeviceEmit
    \/ ZPeerClose

BufferSpec == BufferInit /\ [][BufferNext]_vars

----------------------------------------------------------------------------
\* The views of the capability document: presets and tuners read the
\* cached document through the nri property, which fetches it with
\* get_nri while nothing is cached.

MaxReads == 2
MaxItems == 2

\* An item of a list of the document: a dict with, or without, the key the
\* view files it under ("id" for presets, "band" for tuners), and a name.
NoKey == "absent"
Items == [key : {"k1", NoKey}, name : {"a", "b"}]
Lists == UNION { [1..n -> Items] : n \in 1..MaxItems }
Docs == [presets : Lists, tuners : Lists]

\* The loop of presets and of tuners over the list data: info[key] = item
\* for every item that has the key, the key popped from the item. A later
\* item replaces an earlier one of the same key.
ViewOf(data) ==
    { [key |-> data[k].key, name |-> data[k].name] :
        k \in { j \in 1..Len(data) :
                  /\ data[j].key # NoKey
                  /\ \A i \in (j + 1)..Len(data) : data[i].key # data[j].key } }

\* The list after the loop: item.pop(key) on every item that has the key.
Popped(data) == [k \in 1..Len(data) |-> [data[k] EXCEPT !.key = NoKey]]

ViewOnly == UNCHANGED <<avars, svars, cvars, kvars, dvars, tvars, zvars>>

\* presets or tuners read while _nri holds the document
ReadView(v) ==
    /\ vdoc # NoDoc
    /\ vnri # NoDoc
    /\ Len(vout[v]) < MaxReads
    /\ vout' = [vout EXCEPT ![v] = Append(@, ViewOf(vnri[v]))]
    /\ vnri' = [vnri EXCEPT ![v] = Popped(@)]
    /\ UNCHANGED <<vdoc, vqueries>>
    /\ ViewOnly

\* presets or tuners read while _nri is None: get_nri sends the query,
\* caches the answer and the view is computed from it
FetchAndRead(v) ==
    /\ vdoc # NoDoc
    /\ vnri = NoDoc
    /\ Len(vout[v]) < MaxReads
    /\ vqueries' = vqueries + 1
    /\ vout' = [vout EXCEPT ![v] = Append(@, ViewOf(vdoc[v]))]
    /\ vnri' = [vdoc EXCEPT ![v] = Popped(@)]
    /\ UNCHANGED vdoc
    /\ ViewOnly

ViewInit ==
    /\ AsyncIdle
    /\ SyncIdle
    /\ CodecIdle
    /\ ChunkIdle
    /\ DiscoverIdle
    /\ TranslateIdle
    /\ BufferIdle
    /\ vnri = NoDoc
    /\ vdoc \in Docs
    /\ vqueries = 0
    /\ vout = [v \in Views |-> <<>>]

ViewNext ==
    \/ \E v \in Views : ReadView(v)
    \/ \E v \in Views : FetchAndRead(v)

ViewSpec == ViewInit /\ [][ViewNext]_vars

----------------------------------------------------------------------------
\* Claims about the Receiver.

\* The written item with serial number i.
Written(i) == {w \in {wire[k] : k \in 1..Len(wire)} : w.id = i}
WrittenMsg(i) == (CHOOSE w \in Written(i) : TRUE).msg
WrittenBy(i) == (CHOOSE w \in Written(i) : TRUE).by
IsRequest(i) == (CHOOSE w \in Written(i) : TRUE).ev

\* raw returned a message to caller c (it did not raise).
Returned(c) == got[c].val.kind = "msg"

\* Message m answers message msg by its first three characters: the same
\* three, or MDI for MGS.
SameGroup(m, msg) ==
    /\ m # <<>>
    /\ \/ Take3(m) = Take3(msg)
       \/ Take3(m) = Take3(MDIx) /\ Take3(msg) = Take3(MGSx)

C2_BlockedRequestHasWorker ==
    \A c \in Callers :
        cpc[c] = "wait" /\ result[cop[c].id].kind = "empty"
            => \E t \in Threads : Alive(t)

\* C3, as claimed: at most one worker at every moment, and no context
\* other than the worker operates on the command socket.
C3_OneWorkerOwnsSocket ==
    /\ Cardinality({t \in Threads : Alive(t)}) <= 1
    /\ touched = {}

\* C4, as claimed: packets are written in the order the items were put,
\* none twice (serial numbers follow put order).
C4_WrittenInPutOrder ==
    \A j, k \in 1..Len(wire) : j < k => wire[j].id < wire[k].id

\* C5, as claimed: an error during a request's reply-wait ends in that
\* request's result cell and the worker goes on to the next item: a
\* worker in the reply-wait stays there or returns to the loop with the
\* result set.
C5_WaitErrorKeepsWorker ==
    [][\A t \in Threads :
          tpc[t] = "wait" =>
              \/ tpc'[t] = "wait"
              \/ tpc'[t] = "loop" /\ result'[titem[t].id].kind # "empty"]_vars

\* Caller c returns from Receiver.disconnect in this step.
DisconnectReturns(c) ==
    cpc[c] = "join" /\ cop[c].kind = "disconnect" /\ cpc'[c] = "idle"

\* C23: when Receiver.disconnect returns, no worker is running and the
\* command socket is closed; and an item that a worker which has ended
\* left in its queue is never written to the socket.
C23_ShutdownStopsAndDrops ==
    [][/\ \A c \in Callers :
            DisconnectReturns(c) => (sock' = "none" /\ \A t \in Threads : ~Alive(t)')
       /\ \A t \in Threads :
            tpc'[t] = "dead" =>
                \A k \in 1..Len(queues'[t]) :
                    \A j \in 1..Len(wire') : wire'[j].id # queues'[t][k].id]_vars

\* The frames the worker has yet to get: buffered, then readable.
Stream == buffer \o inbox

\* A poll of the worker returned a message in this step.
Handles == handled' # handled

\* The worker is in the drain phase, resp. in the reply-wait of an item.
Draining == \E t \in Threads : tpc[t] = "drain"
Waiting == \E t \in Threads : tpc[t] = "wait"
Waited == (CHOOSE t \in Threads : tpc[t] = "wait")

\* C25: every message a poll of the worker returns is the front frame, a
\* frame later than every frame handled before, and is taken off the
\* connection in that step (so it is handled once and never kept for a
\* later drain); it goes to the callback exactly when the poll was one of
\* the drain phase; a message polled in the reply-wait of an item goes to
\* that item's result cell when it matches and is discarded when it does
\* not.
C25_CallbackFromDrainOnly ==
    [][Handles =>
        /\ handled'.n > handled.n
        /\ Stream # <<>> /\ handled'.m = Head(Stream).m /\ handled'.re = Head(Stream).re
        /\ \E n \in 0..Len(Stream) - 1 : buffer' \o inbox' = SubSeq(Stream, 2, n + 1)
        /\ handled'.to = "callback" <=> Draining
        /\ handled'.to \in {"result", "discarded"} <=> Waiting
        /\ handled'.to = "result" =>
              /\ result[titem[Waited].id] = Empty
              /\ result' = [result EXCEPT ![titem[Waited].id] = Msg(handled'.m, handled'.re)]
              /\ Accepts(Msg(handled'.m, handled'.re), titem[Waited].msg)
        /\ handled'.to = "discarded" =>
              /\ ~Accepts(Msg(handled'.m, handled'.re), titem[Waited].msg)
              /\ \A i \in Ids :
                    result'[i] = result[i] \/ result'[i] # Msg(handled'.m, handled'.re)
       ]_vars

\* C25 witness: the reply-wait of an item discarded a message that did not
\* match, the worker is back in the drain phase, and the message is neither
\* in the buffer nor in any result cell.
C25_DiscardedInWait ==
    /\ handled.to = "discarded"
    /\ Draining
    /\ Stream = <<>>
    /\ \E i \in Ids : result[i].kind = "msg" /\ result[i].re = i

----------------------------------------------------------------------------
\* Claims about eISCP.raw and filter_for_message.

\* raw ended by returning a message a poll obtained.
SReturnedPolled == spc = "done" /\ sres.kind = "msg" /\ sres.re >= 0

\* The polled messages before the last.
EarlierPolled == {polled[k] : k \in 1..(Len(polled) - 1)}

\* C6: raw returns the first message polled after the send that answers
\* the sent message by its first three characters (the same three, or
\* MDI for MGS); the messages polled before it do not answer it, are
\* skipped and are never returned; while raw is still waiting, no polled
\* message answered it.
C6_ReturnsFirstOfGroup ==
    /\ spc = "filter" => \A k \in 1..Len(polled) : ~SameGroup(polled[k].m, smsg)
    /\ SReturnedPolled =>
        /\ polled # <<>>
        /\ sres = polled[Len(polled)]
        /\ SameGroup(sres.m, smsg)
        /\ \A e \in EarlierPolled : ~SameGroup(e.m, smsg)

\* C6 witness: PVR00 was sent, a message of another group was polled and
\* skipped, then PVR01 was polled and returned.
C6_PVR01AfterSkip ==
    /\ smsg = PVR00
    /\ spc = "done"
    /\ sres = Msg(PVR01, 0)
    /\ polled = <<Msg(MDIx, 0), Msg(PVR01, 0)>>

\* C7, as claimed: for a sent message with prefix CTV, raw returns
\* without any poll and without consuming an inbound message.
C7_NoPollForCTV ==
    IsCTV(smsg) => ~didPoll /\ polled = <<>>

\* C7, amended: for a sent message with prefix CTV, raw makes exactly
\* one poll, of at most the poll timeout, and then ends: it returns the
\* polled message if that has prefix CTV and the sent message otherwise,
\* a polled message of another prefix being consumed and dropped; it
\* never raises the timeout error.
C7_OnePollForCTV ==
    IsCTV(smsg) =>
        /\ spc = "filter" => ~didPoll /\ elapsed = 0
        /\ didPoll =>
            /\ spc = "done"
            /\ Len(polled) <= 1
            /\ elapsed <= PollTicks
            /\ sres.kind # "timeout"
            /\ sres.kind = "msg" =>
                  IF polled # <<>> /\ Take3(polled[1].m) = Take3(smsg)
                  THEN sres = polled[1]
                  ELSE sres = Msg(smsg, -1)

\* C7 witness: CTVUP was sent, the one poll consumed PVR01, and raw
\* returned the sent message.
C7_ConsumedThenEchoed ==
    /\ smsg = CTVUP
    /\ spc = "done"
    /\ polled = <<Msg(PVR01, 0)>>
    /\ sres = Msg(CTVUP, -1)

C22_QueuedNeverTheReply ==
    /\ \A k \in 1..Len(polled) : polled[k].re # 1
    /\ spc = "done" /\ sres.kind = "msg" => sres.re # 1

----------------------------------------------------------------------------
\* Claims about the codec.

IsAscii(s) == \A k \in 1..Len(s) : s[k] < 128
HasEOF(s) == \E k \in 1..Len(s) : s[k] = EOF

\* get_message returned the text m.
Decoded(m) == message = [kind |-> "msg", m |-> m]

\* The command with its last n characters dropped.
DropLast(s, n) == SubSeq(s, 1, Len(s) - n)

EndsWithEOF(s) == Len(s) >= 1 /\ s[Len(s)] = EOF
EndsWithEOFTerm(s) ==
    Len(s) >= 2 /\ s[Len(s) - 1] = EOF /\ s[Len(s)] \in TERMINATORS

C10_DataSizeCountsBytes ==
    cstage # "encode" =>
        /\ UnpackI(SubSeq(packet, 5, 8)) = 16
        /\ UnpackI(SubSeq(packet, 9, 12)) = Len(packet) - 16

----------------------------------------------------------------------------
\* Claims about MessageBuffer fed in chunks.

\* The bodies of the first n frames of the stream.
Bodies(n) == [k \in 1..n |-> texts[k].body]

\* The number of bytes of the first n frames of the stream.
BytesOf(n) == Len(StreamOf(SubSeq(texts, 1, n)))

\* C11: however the stream of well-formed frames is cut into chunks, the
\* messages get_message returns are the bodies of the frames, in order,
\* each once: never a failure, at every moment the messages returned are
\* those of the first frames and the buffer holds exactly the bytes fed
\* that follow those frames (none lost, none twice), and when the whole
\* stream is fed and drained every body has been returned and the buffer
\* is empty, as when the stream is fed in one chunk.
C11_ChunksGiveTheSameMessages ==
    kstage # "off" =>
        /\ kstage # "failed"
        /\ Len(outs) <= Len(texts)
        /\ outs = Bodies(Len(outs))
        /\ chunkbuf = SubSeq(StreamOf(texts), BytesOf(Len(outs)) + 1, fed)
        /\ kstage = "done" => outs = Bodies(Len(texts)) /\ chunkbuf = <<>>

\* C11 witness: a stream of two frames was fed in chunks that cut a frame,
\* the partial frame stayed buffered, and both messages were returned.
C11_CutFrameReassembled ==
    /\ kstage = "done"
    /\ partial
    /\ Len(outs) = 2
    /\ outs[1] # outs[2]

\* C26: a get_message that fails leaves the buffer as it was; and once it
\* has failed, no step delivers a message or changes the buffer or lets a
\* poll end otherwise, except the reconnect that empties the buffer.
C26_BadFrameStaysInFront ==
    [][/\ kstage' = "failed" => chunkbuf' = chunkbuf
       /\ kstage = "failed" =>
              /\ outs' = outs
              /\ \/ kstage' = "failed" /\ fed' = fed
                 \/ kstage' = "get" /\ chunkbuf' = <<>> /\ fed' = 0]_vars

\* C26 witness: get_message has failed on the frame in front while the
\* whole of a well-formed frame lies behind it in the buffer, undelivered.
C26_GoodFrameBehindBadOne ==
    /\ kstage = "failed"
    /\ Len(texts) = 2
    /\ texts[1].fault # "none" /\ texts[2].fault = "none"
    /\ chunkbuf = FaultStream(texts)
    /\ outs = <<>>

----------------------------------------------------------------------------
\* Claims about discover.

\* C12: the list discover returns has at most one record per identifier,
\* and exactly one for every identifier a response carried, whatever the
\* number of responses and of source addresses that carried it.
C12_OneRecordPerIdentifier ==
    dpc = "done" =>
        /\ \A j, k \in 1..Len(dresult) : dresult[j].id = dresult[k].id => j = k
        /\ {dresult[k].id : k \in 1..Len(dresult)} = {r.id : r \in heard}

\* C12 witness: two responses carried the same identifier from different
\* source addresses, and the list returned has one entry.
C12_SameIdTwoSources ==
    /\ dpc = "done"
    /\ heard = {[id |-> "id1", host |-> "h1"], [id |-> "id1", host |-> "h2"]}
    /\ Len(dresult) = 1

\* Control has left discover: it returned, or an exception went to the caller.
DiscoverLeft == dpc \in {"done", "raised"}

\* C24: when control has left discover, every UDP socket it opened has been
\* closed, whatever datagrams were received, and no receiver it built has a
\* TCP connection.
C24_SocketsClosedOnLeaving ==
    /\ DiscoverLeft => dopen = 0
    /\ \A k \in 1..Len(found) : found[k].command_socket = "none"

----------------------------------------------------------------------------
\* Claims about the pretty commands.

\* The request names a zone of the catalogue and a command of that zone.
Known == treq.zone.t = "str" /\ \E e \in Catalogue : e.zone = treq.zone.s /\ e.name = treq.command
Asked == CHOOSE e \in Catalogue : e.zone = treq.zone.s /\ e.name = treq.command
IsAlias == treq.argument.t = "str" /\ \E v \in Asked.values : v.name = treq.argument.s
IsInside == treq.argument.t = "int" /\ \E r \in Asked.ranges : r.lo <= treq.argument.n /\ treq.argument.n <= r.hi
IsOutside == treq.argument.t = "int" /\ Asked.ranges # {} /\ ~IsInside
IsNoNumber == treq.argument.t = "str" /\ ~IsAlias

\* C13: command_to_iscp, given an integer argument that is no alias and lies
\* outside the range the catalogue declares for the command, or an argument
\* that is no number and no alias, raises ValueError: it returns no code and
\* raises no error of another kind.
C13_BadArgumentIsValueError ==
    (Known /\ touts["explicit"] # NotCalled /\ (IsOutside \/ IsNoNumber))
        => touts["explicit"].kind = "ValueError"

\* The two uppercase hexadecimal digits of n in 0..255.
HexUpper == <<"0", "1", "2", "3", "4", "5", "6", "7", "8", "9", "A", "B", "C", "D", "E", "F">>
TwoHex(n) == <<HexUpper[(n \div 16) + 1], HexUpper[(n % 16) + 1]>>
SignedOffset(n) ==
    IF n = 0 THEN <<"0", "0", "0">>
    ELSE IF n > 0 THEN <<"+">> \o TwoHex(n)
    ELSE <<"-">> \o TwoHex(0 - n)

AllCalled == \A sh \in Shapes : touts[sh] # NotCalled

\* C16: the three shapes of the call agree: command_to_iscp(c, a, zone=z),
\* command_to_iscp('z.c=a') and command_to_iscp('z c a') return the same
\* code, and with no zone in the call (command_to_iscp(c, a), 'c=a', 'c a')
\* each returns the code of the call with zone 'main'.
C16_ShapesAgree ==
    LET code == CallShape("explicit",
                    [treq EXCEPT !.zone = IF treq.zone.t = "none"
                                          THEN PyStr(Main) ELSE treq.zone])
    IN  (AllCalled /\ code.kind = "code") => \A sh \in Shapes : touts[sh] = code

----------------------------------------------------------------------------
\* Claims about connecting and disconnecting.

\* C17: whichever way the worker thread ends (its first connect fails, a
\* reconnect, a send, the decoding of a frame or a callback raises, or the
\* loop is stopped), eISCP.disconnect has run by then: when the thread is
\* dead the command socket is closed and command_socket is None.
C17_WorkerEndsDisconnected ==
    [][\A t \in Threads : (tpc[t] # "dead" /\ tpc'[t] = "dead") => sock' = "none"]_vars

\* C18: a connect that fails leaves the client, synchronous or asynchronous,
\* disconnected with no socket retained: command_socket never holds a
\* socket whose connect failed, so that the next call connects again.
C18_FailedConnectKeepsNoSocket == sock # "unconnected"

\* C19: a poll whose read returns no bytes returns no message and leaves
\* the client disconnected, and the operation that connects it again
\* starts from an empty buffer.
\* A poll of the connected client finds no message in the buffer and its
\* read returns no bytes: the peer has closed and nothing is left to
\* read, or the buffer is full.
ReadsNothing ==
    /\ zsock = "connected"
    /\ ~(zlen >= HeaderSize /\ zframes # <<>> /\ zlen >= Head(zframes))
    /\ \/ zpend = 0 /\ zclosed
       \/ zpend > 0 /\ zlen = Capacity
\* The step is a poll: it ends in a message or in none, and it is no step
\* of the device.
IsPoll ==
    /\ zlast' \in {"msg", "none"}
    /\ zemitted' = zemitted
    /\ zclosed' = zclosed \/ zsock' = "none"

C19_ZeroReadDisconnects ==
    [][/\ (ReadsNothing /\ IsPoll) => (zlast' = "none" /\ zsock' = "none")
       /\ (zsock = "none" /\ zsock' = "connected") => (zlen' = 0 /\ zframes' = <<>>)]_vars

C19_ReconnectedAfterZeroRead ==
    /\ zwhy = "zero"
    /\ zsock = "connected"
    /\ zstale > 0
    /\ zlen = 0

\* C20: the buffer never holds more bytes than its capacity.
C20_BufferWithinCapacity == zlen <= Capacity

C20_BufferFull == zlen = Capacity /\ zsock = "connected"

\* The frame in front declares more bytes than the buffer can hold.
Oversize == zframes # <<>> /\ Head(zframes) > Capacity

\* C27: while the frame in front is longer than the buffer, no poll returns
\* a message; a poll of the connected client whose peer has not closed
\* either reads more of the frame into the buffer or, once the buffer is
\* full, reads no bytes and disconnects as if the peer had closed; and the
\* connect that follows starts from an empty buffer.
C27_OversizeNeverDelivered ==
    [][/\ (Oversize /\ IsPoll) => zlast' = "none"
       /\ (Oversize /\ IsPoll /\ zsock = "connected" /\ ~zclosed) =>
              IF zlen = Capacity
              THEN zsock' = "none" /\ zwhy' = "zero" /\ zlen' = zlen
              ELSE zsock' = "connected" /\ zlen' >= zlen /\ zlen' <= Capacity
       /\ (Oversize /\ zsock = "none" /\ zsock' = "connected") =>
              (zlen' = 0 /\ zframes' = <<>> /\ zstale' = zlen)]_vars

\* C27 witness: the client disconnected on a read of no bytes with the
\* buffer full of the first part of a frame longer than the buffer, the one
\* frame the device sent, and the next operation connected and discarded
\* those bytes.
C27_FullBufferDisconnected ==
    /\ zwhy = "zero"
    /\ zstale = Capacity
    /\ zsock = "connected"
    /\ zlen = 0
    /\ zemitted = 1

----------------------------------------------------------------------------
\* Claims about the views of the capability document.

\* C21: every read of a view on the same client returns what the first
\* read returned, the cached document stays the document that was fetched,
\* and once it is cached no further query is sent.
C21_ViewsArePure ==
    /\ \A v \in Views : \A k \in 1..Len(vout[v]) : vout[v][k] = vout[v][1]
    /\ vnri # NoDoc => vnri = vdoc
    /\ vqueries <= 1

====
